---- MODULE Spec2Model ----
(***************************************************************************)
(* dicom-pseudon: batch pseudonymizer of DICOM files.                      *)
(* Model of src/dicom_pseudon.py: the identity store (Index), the quarantine*)
(* inspector, the attribute policy and the threaded batch pipeline.        *)
(***************************************************************************)
EXTENDS Integers, Sequences, FiniteSets, TLC

\* ------------------------------------------------------------------ bounds
\* Largest num_workers a run is started with.
MaxWorkers == 2
\* Number of files in the input tree.
NumFiles == 2
\* Number of processes (program runs) over the same disk state.
MaxProcs == 2
\* Number of failing reads and writes (IOError) the environment injects per
\* process.
MaxIOErrors == 1

Workers == 1..MaxWorkers
Files == 1..NumFiles

\* ------------------------------------------------------------------ text
\* Text values are sequences of one-character strings.
UpperChars == <<"A","B","C","D","E","F","G","H","I","J","K","L","M",
                "N","O","P","Q","R","S","T","U","V","W","X","Y","Z">>
LowerChars == <<"a","b","c","d","e","f","g","h","i","j","k","l","m",
                "n","o","p","q","r","s","t","u","v","w","x","y","z">>

LowerChar(c) ==
    IF \E i \in 1..Len(UpperChars) : UpperChars[i] = c
      THEN LowerChars[CHOOSE i \in 1..Len(UpperChars) : UpperChars[i] = c]
      ELSE c

\* str.lower()
Lower(s) == [i \in 1..Len(s) |-> LowerChar(s[i])]

\* str.strip(): leading and trailing blanks removed
RECURSIVE LStrip(_)
LStrip(s) == IF s # <<>> /\ Head(s) = " " THEN LStrip(Tail(s)) ELSE s
RECURSIVE RStrip(_)
RStrip(s) == IF s # <<>> /\ s[Len(s)] = " " THEN RStrip(SubSeq(s, 1, Len(s) - 1)) ELSE s
Strip(s) == RStrip(LStrip(s))

\* Python's `sub in s` on strings
Contains(sub, s) ==
    \E i \in 0..(Len(s) - Len(sub)) : SubSeq(s, i + 1, i + Len(sub)) = sub

\* ------------------------------------------------------------------ tags
MEDIA_STORAGE_SOP_INSTANCE_UID == <<2, 3>>
ACCESSION_NUMBER == <<8, 80>>
SERIES_DESCR == <<8, 4158>>
MODALITY == <<8, 96>>
BURNT_IN == <<40, 769>>
IMAGE_TYPE == <<8, 8>>
MANUFACTURER == <<8, 112>>
MANUFACTURER_MODEL_NAME == <<8, 4240>>
PIXEL_DATA == <<32736, 16>>

ALLOWED_FILE_META ==
    { MEDIA_STORAGE_SOP_INSTANCE_UID, <<2, 0>>, <<2, 1>>, <<2, 2>>,
      <<2, 16>>, <<2, 18>>, <<2, 19>> }

REQUIRED_TAGS ==
    { ACCESSION_NUMBER, <<8, 32>>, <<8, 48>>, <<8, 144>>, <<16, 16>>,
      <<16, 32>>, <<16, 48>>, <<16, 64>>, <<32, 16>>, <<32, 17>>,
      <<32, 19>>, <<32, 32>>, <<32, 13>>, <<32, 14>> }

PIXEL_MODULE_TAGS ==
    { PIXEL_DATA, <<40, 2>>, <<40, 4>>, <<40, 6>>, <<40, 16>>, <<40, 17>>,
      <<40, 52>>, <<40, 256>>, <<40, 257>>, <<40, 258>>, <<40, 259>>,
      <<40, 262>>, <<40, 263>>, <<40, 289>>, <<40, 4353>>, <<40, 4354>>,
      <<40, 4355>>, <<40, 4609>>, <<40, 4610>>, <<40, 4611>>, <<40, 8192>>,
      <<40, 8194>>, <<40, 32736>> }

REMOVED_TEXT == "Removed by dicom-pseudon"

DE_IDENTIFICATION_METHOD == "Pseudonymized by The Cancer Registry of Norway"

\* --------------------------------------------------------------- datasets
\* A dataset is a function from the tags present to elements.  An element is
\* [none, vals]: none says the value is None, vals lists the component values
\* (VM = Len(vals)), each a text.
Elem(t) == [none |-> FALSE, vals |-> <<t>>]
NoneElem == [none |-> TRUE, vals |-> <<>>]
Multi(ts) == [none |-> FALSE, vals |-> ts]
VM(e) == Len(e.vals)
\* DataElement.value of a non-None element with VM <= 1
Text(e) == IF Len(e.vals) = 0 THEN <<>> ELSE e.vals[1]

\* The serial column of a row that has none, and Index.get's "no row".
None == <<"None">>

\* self.modalities: the allowed modalities, lower-cased (the CLI default)
Modalities == { <<"m","r">>, <<"c","t">> }

Verdict(move, reason) == [move |-> move, reason |-> reason, raised |-> FALSE]
\* an exception escapes check_quarantine (str method on None, indexing None)
Raised == [move |-> FALSE, reason |-> "", raised |-> TRUE]

\* for m in modality: m is None or not m.lower() in self.modalities
ModalityRejected(e) ==
    \E i \in 1..Len(e.vals) : Lower(e.vals[i]) \notin Modalities

\* for i in image_type: i is not None and 'save' in i.strip().lower()
ImageTypeHasSave(e) ==
    \E i \in 1..Len(e.vals) : Contains(<<"s","a","v","e">>, Lower(Strip(e.vals[i])))

SeriesText(ds) == Lower(Strip(Text(ds[SERIES_DESCR])))
SeriesChecked(ds) == SERIES_DESCR \in DOMAIN ds /\ ~ds[SERIES_DESCR].none
ManufacturerText(ds) == Lower(Strip(Text(ds[MANUFACTURER])))
ModelNameText(ds) == Lower(Strip(Text(ds[MANUFACTURER_MODEL_NAME])))

\* value.strip() raises AttributeError: the value is None or a MultiValue
NoStrip(e) == e.none \/ VM(e) > 1

\* DicomPseudon.check_quarantine
check_quarantine(ds) ==
    IF SeriesChecked(ds) /\ NoStrip(ds[SERIES_DESCR])
      THEN Raised
    ELSE IF SeriesChecked(ds)
       /\ Contains(<<"p","a","t","i","e","n","t"," ","p","r","o","t","o","c","o","l">>,
                   SeriesText(ds))
      THEN Verdict(TRUE, "patient protocol")
    ELSE IF SeriesChecked(ds) /\ Contains(<<"s","a","v","e">>, SeriesText(ds))
      THEN Verdict(TRUE, "Likely screen capture")
    ELSE IF MODALITY \in DOMAIN ds /\ ds[MODALITY].none
      THEN Raised
    ELSE IF MODALITY \in DOMAIN ds /\ ModalityRejected(ds[MODALITY])
      THEN Verdict(TRUE, "modality not allowed")
    ELSE IF MODALITY \notin DOMAIN ds
      THEN Verdict(TRUE, "Modality missing")
    ELSE IF BURNT_IN \in DOMAIN ds /\ ~ds[BURNT_IN].none /\ NoStrip(ds[BURNT_IN])
      THEN Raised
    ELSE IF BURNT_IN \in DOMAIN ds /\ ~ds[BURNT_IN].none
            /\ Lower(Strip(Text(ds[BURNT_IN]))) \in { <<"y","e","s">>, <<"y">> }
      THEN Verdict(TRUE, "burnt-in data")
    ELSE IF IMAGE_TYPE \in DOMAIN ds /\ ds[IMAGE_TYPE].none
      THEN Raised
    ELSE IF IMAGE_TYPE \in DOMAIN ds /\ ImageTypeHasSave(ds[IMAGE_TYPE])
      THEN Verdict(TRUE, "Likely screen capture")
    ELSE IF MANUFACTURER \in DOMAIN ds /\ NoStrip(ds[MANUFACTURER])
      THEN Raised
    ELSE IF MANUFACTURER \in DOMAIN ds
            /\ (Contains(<<"n","o","r","t","h"," ","a","m","e","r","i","c","a","n"," ",
                           "i","m","a","g","i","n","g",","," ","i","n","c">>,
                         ManufacturerText(ds))
                \/ Contains(<<"p","a","c","s","g","e","a","r">>, ManufacturerText(ds)))
      THEN Verdict(TRUE, "Manufacturer is suspect")
    ELSE IF MANUFACTURER_MODEL_NAME \in DOMAIN ds
            /\ NoStrip(ds[MANUFACTURER_MODEL_NAME])
      THEN Raised
    ELSE IF MANUFACTURER_MODEL_NAME \in DOMAIN ds
            /\ Contains(<<"t","h","e"," ","d","i","c","o","m"," ","b","o","x">>,
                        ModelNameText(ds))
      THEN Verdict(TRUE, "Manufacturer model name is suspect")
    ELSE Verdict(FALSE, "")

\* a fingerprint taken over the whole dataset, pixel data included
get_fingerprint_with_pixels(ds) == ds

\* DicomPseudon.get_fingerprint: the hash of the dataset with the pixel data
\* cleared.  md5 is taken to be injective on the serialised content, so the
\* hash is identified with that content.
get_fingerprint(ds) == [ds EXCEPT ![PIXEL_DATA] = Elem(<<>>)]

\* ------------------------------------------------------ the identity store
\* Rows of accession_numbers are kept in rowid order: [original, serial].
RowsOf(tab, original) == { i \in 1..Len(tab) : tab[i].original = original }
FirstOf(S) == CHOOSE i \in S : \A j \in S : i <= j

\* Index.get: the serial of the row, None without a row (or without the table)
IndexGet(tab, original) ==
    IF RowsOf(tab, original) = {} THEN None
    ELSE tab[FirstOf(RowsOf(tab, original))].serial

\* an INSERT OR REPLACE: the row of the accession is replaced by a new one
IndexInsertReplace(tab, original) ==
    Append(SelectSeq(tab, LAMBDA r : r.original # original),
           [original |-> original, serial |-> None])

\* Index.insert: INSERT OR IGNORE under UNIQUE(original)
IndexInsert(tab, original) ==
    IF RowsOf(tab, original) # {} THEN tab
    ELSE Append(tab, [original |-> original, serial |-> None])

\* an UPDATE without its WHERE clause
IndexUpdateAll(tab, original, serial) ==
    [i \in 1..Len(tab) |-> [tab[i] EXCEPT !.serial = serial]]

\* Index.update
IndexUpdate(tab, original, serial) ==
    [i \in 1..Len(tab) |->
        IF tab[i].original = original THEN [tab[i] EXCEPT !.serial = serial] ELSE tab[i]]

\* Index.get_hash: the hash when it is stored, else nothing
IndexGetHash(hashes, h) == h \in hashes

\* insert_hash that stores nothing
IndexInsertHashLost(hashes, h) == hashes

\* Index.insert_hash: INSERT OR IGNORE under UNIQUE(hash)
IndexInsertHash(hashes, h) == hashes \cup {h}

\* ---------------------------------------------------------- the input tree
A1 == <<"R","9","B">>
A2 == <<"K","4">>
S1 == <<"a","1">>
P1 == <<"x">>
P2 == <<"y">>

DsPlain(acc, px) ==
    (ACCESSION_NUMBER :> Elem(acc)) @@ (MODALITY :> Elem(<<"M","R">>))
    @@ (PIXEL_DATA :> Elem(px))
DsScreenSave == DsPlain(A1, P1) @@ (SERIES_DESCR :> Elem(<<"S","a","v","e">>))
DsNoPixel == (ACCESSION_NUMBER :> Elem(A1)) @@ (MODALITY :> Elem(<<"M","R">>))
DsNoAccession == (MODALITY :> Elem(<<"M","R">>)) @@ (PIXEL_DATA :> Elem(P1))
NoDs == (MODALITY :> NoneElem)

\* The kinds of file an input tree is drawn from.  kind: "dot" (name starts
\* with '.'), "invalid" (read_file raises InvalidDicomError), "dicom"
\* (read_file returns ds).  A read of a file of any kind but "dot" can also
\* raise IOError, which the environment injects.
FileKinds ==
    << [kind |-> "dicom", ds |-> DsPlain(A1, P1)],
       [kind |-> "dicom", ds |-> DsPlain(A1, P2)],
       [kind |-> "dicom", ds |-> DsPlain(A2, P1)],
       [kind |-> "dicom", ds |-> DsScreenSave],
       [kind |-> "dicom", ds |-> DsNoPixel],
       [kind |-> "dicom", ds |-> DsNoAccession],
       [kind |-> "invalid", ds |-> NoDs],
       [kind |-> "dot", ds |-> NoDs] >>

\* The stores a run can start from: built by build_index from a links file
\* that maps A1 only, with and without a file of accession A2 in the tree.
StoreChoices ==
    << << [original |-> A1, serial |-> S1], [original |-> A2, serial |-> None] >>,
       << [original |-> A1, serial |-> S1] >> >>

S2 == <<"b","2">>

\* The links file: (invitation number, serial number) lines.  The second line
\* repeats an invitation number, the third matches no accession number.
LinksFile ==
    << [invitation |-> <<"9">>, serial |-> S1],
       [invitation |-> <<"9">>, serial |-> S2],
       [invitation |-> <<"7">>, serial |-> S2] >>

\* ------------------------------------------------------------------ state
VARIABLES
    \* on disk, kept from one process to the next
    files,          \* input tree: file -> index into FileKinds, 0 or -1
                    \* while the file has not shown its kind (KindsLeft)
    accTable,       \* store: table accession_numbers
    hashTable,      \* store: table fingerprints
    written,        \* output tree: the writes done, [file, proc, serial, n]
    quarantine,     \* quarantine tree: the copies made, [file, reason, live];
                    \* live: the copy has not been overwritten since
    dirs,           \* output tree: the serial directories made
    \* the running process
    proc,           \* number of this process
    mainpc,         \* position of the main thread in run()
    storeOpen,      \* self.index.db is open (close_all closes it)
    skip_prior,     \* run()'s skip_prior
    num_workers,    \* run()'s num_workers
    queue,          \* the work queue: files, then one 0 (None) per worker
    unfinished,     \* queue.unfinished_tasks, what queue.join() waits for
    worker,         \* per thread: pc, task, serial_num, count, prior, pseudonymized
    counter_queue,  \* the (pseudonymized, prior) pairs put by exiting workers
    fs_lock,        \* holder of fs_lock, 0 when free
    db_lock,        \* holder of db_lock, 0 when free
    result,         \* what run() returned and logged
    ioErrors,       \* failing reads and writes injected so far in this process
    \* history, read by the properties only
    ioFatal,        \* a worker of this process took an IOError path
    audit,          \* per file of this process: times taken, outcomes, noSerial
    baseline,       \* the output tree when this process started
    prevClean,      \* the previous process returned from run() without IOError
    \* the command line program
    indexed_lock,   \* the file indexed.lock exists
    last_exit,      \* history: how the previous process ended, and the store
                    \* it had when it ended or entered clean_up
    links_file,     \* the lines of the links file, [invitation, serial]
    line_num,       \* build_index: the line the loop over the links file is at
    invitation_num_set, \* build_index: the invitation numbers seen so far
    \* one walk of the attribute policy over a dataset
    white_list,     \* self.white_list: the whitelisted tags
    walk_kind,      \* the mapping walked: "meta" (ds.file_meta), "main" (ds)
    walk_ds,        \* the dataset being walked
    taglist,        \* Dataset.walk: the tags still to visit, sorted
    walk_orig,      \* history: the dataset as it was before the walk
    saved_ds        \* the dataset ds.save_as wrote, <<>> before

diskVars == <<files, accTable, hashTable, written, quarantine, dirs>>
poolVars == <<queue, unfinished, worker, counter_queue, fs_lock, db_lock>>
mainVars == <<proc, mainpc, skip_prior, num_workers, result>>
histVars == <<ioFatal, audit, baseline, prevClean>>
linkVars == <<links_file, line_num, invitation_num_set>>
cliVars == <<indexed_lock, last_exit, linkVars>>
policyVars == <<white_list, walk_kind, walk_ds, taglist, walk_orig, saved_ds>>
vars == <<diskVars, poolVars, mainVars, histVars, storeOpen, ioErrors,
          cliVars, policyVars>>

\* What a file that has not shown its kind yet can be: any kind when nobody
\* has looked at it (0); any kind that is read when every read of it raised
\* IOError (-1), since a file named '.x' is skipped before it is read.
Unseen == 0
Unreadable == 0 - 1
KindsLeft(f) ==
    IF files[f] = Unseen THEN 1..Len(FileKinds)
    ELSE IF files[f] = Unreadable
      THEN { k \in 1..Len(FileKinds) : FileKinds[k].kind # "dot" }
    ELSE { files[f] }

FileOf(f) == FileKinds[files[f]]
DsOf(f) == FileOf(f).ds

\* What check_quarantine and get_fingerprint give for the dataset of each
\* kind of file (both are functions of the dataset alone).
KindVerdict == [k \in 1..Len(FileKinds) |-> check_quarantine(FileKinds[k].ds)]
KindFingerprint == [k \in 1..Len(FileKinds) |-> get_fingerprint(FileKinds[k].ds)]

IdleWorker ==
    [pc |-> "off", task |-> 0, serial_num |-> None, count |-> 0,
     prior |-> 0, pseudonymized |-> 0]
NoAudit == [taken |-> 0, outcomes |-> <<>>, noSerial |-> FALSE]

\* The thread goes back to queue.get(); the locals of the item are dead.
Loop(r) == [r EXCEPT !.pc = "get", !.task = 0, !.serial_num = None, !.count = 0]
\* The thread ends in state pc.
Stop(r, pc) == [r EXCEPT !.pc = pc, !.task = 0, !.serial_num = None, !.count = 0]

\* a join that also returns for a thread that waits in queue.get()
EndedOrWaiting == {"exited", "failed", "crashed", "bget", "get"}

\* Thread states in which the thread has ended: returned after the None task,
\* returned False after an IOError on a read, or died of an uncaught exception.
Ended == {"exited", "failed", "crashed"}

NoExit == [how |-> "none", acc |-> <<>>, hashes |-> {}]

\* A freshly constructed DicomPseudon whose main thread is at pc, over a store
\* file that holds one of the accession tables of stores.
PipelineInit(stores, pc) ==
    /\ files = [f \in Files |-> Unseen]
    /\ accTable \in stores
    /\ hashTable = {}
    /\ written = {}
    /\ quarantine = {}
    /\ dirs = {}
    /\ proc = 1
    /\ mainpc = pc
    /\ storeOpen = TRUE
    /\ skip_prior = FALSE
    /\ num_workers = 1
    /\ queue = <<>>
    /\ unfinished = 0
    /\ worker = [w \in Workers |-> IdleWorker]
    /\ counter_queue = <<>>
    /\ fs_lock = 0
    /\ db_lock = 0
    /\ result = [ret |-> "unset", pseudonymized |-> 0, prior |-> 0]
    /\ ioErrors = 0
    /\ ioFatal = FALSE
    /\ audit = [f \in Files |-> NoAudit]
    /\ baseline = {}
    /\ prevClean = FALSE
    /\ line_num = 1
    /\ invitation_num_set = {}

\* No dataset is being walked.
PolicyIdle ==
    /\ white_list = {}
    /\ walk_kind = "none"
    /\ walk_ds = <<>>
    /\ taglist = <<>>
    /\ walk_orig = <<>>
    /\ saved_ds = <<>>

\* run() is called on an object whose index has been built.
Init ==
    /\ PipelineInit({ StoreChoices[i] : i \in 1..Len(StoreChoices) }, "start")
    /\ indexed_lock = TRUE
    /\ last_exit = NoExit
    /\ links_file = LinksFile
    /\ PolicyIdle

\* ------------------------------------------------------------- run(), main
\* DicomPseudon.run up to queue.join(): fill the queue, start the threads.
RunStart(n, skip) ==
    /\ mainpc = "start"
    /\ num_workers' = n
    /\ skip_prior' = skip
    /\ queue' = [i \in 1..NumFiles |-> i]
    /\ unfinished' = NumFiles
    /\ worker' = [w \in Workers |-> IF w <= n THEN [IdleWorker EXCEPT !.pc = "get"]
                                             ELSE IdleWorker]
    /\ mainpc' = "queue_join"
    /\ UNCHANGED <<diskVars, counter_queue, fs_lock, db_lock, proc, result, histVars,
                   storeOpen, ioErrors, cliVars, policyVars>>

\* a loop that puts a single None
PoisonOne(n) == <<0>>

\* for _ in range(num_workers): queue.put(None)
Poison(n) == [i \in 1..n |-> 0]

\* queue.join() returns; one None per worker is put
RunPoison ==
    /\ mainpc = "queue_join"
    /\ unfinished = 0
    /\ queue' = queue \o Poison(num_workers)
    /\ mainpc' = "thread_join"
    /\ UNCHANGED <<diskVars, unfinished, worker, counter_queue, fs_lock, db_lock, proc,
                   skip_prior, num_workers, result, histVars, storeOpen, ioErrors,
                   cliVars, policyVars>>

RECURSIVE SumOf(_, _)
SumOf(q, k) == IF q = <<>> THEN 0 ELSE Head(q)[k] + SumOf(Tail(q), k)

\* every t.join() returns; counter_queue is summed; close_all(); return True
RunReturn ==
    /\ mainpc = "thread_join"
    /\ \A w \in 1..num_workers : worker[w].pc \in Ended
    /\ result' = [ret |-> "True", pseudonymized |-> SumOf(counter_queue, 1),
                  prior |-> SumOf(counter_queue, 2)]
    /\ counter_queue' = <<>>
    /\ storeOpen' = FALSE
    /\ mainpc' = "returned"
    /\ UNCHANGED <<diskVars, queue, unfinished, worker, fs_lock, db_lock, proc, skip_prior,
                   num_workers, histVars, ioErrors, cliVars, policyVars>>

\* The process ends after run() and the program is started again over the
\* same input tree, output tree and store file.
Restart ==
    /\ mainpc = "returned"
    /\ proc < MaxProcs
    /\ proc' = proc + 1
    /\ mainpc' = "start"
    /\ storeOpen' = TRUE
    /\ queue' = <<>>
    /\ unfinished' = 0
    /\ worker' = [w \in Workers |-> IdleWorker]
    /\ counter_queue' = <<>>
    /\ fs_lock' = 0
    /\ db_lock' = 0
    /\ result' = [ret |-> "unset", pseudonymized |-> 0, prior |-> 0]
    /\ ioErrors' = 0
    /\ ioFatal' = FALSE
    /\ audit' = [f \in Files |-> NoAudit]
    /\ baseline' = written
    /\ prevClean' = ~ioFatal
    /\ UNCHANGED <<diskVars, skip_prior, num_workers, cliVars, policyVars>>

\* ------------------------------------------------------ run_worker, threads
\* queue.task_done() of the finally block, with the outcomes the item reached
EndItem(f, outs) ==
    /\ unfinished' = unfinished - 1
    /\ audit' = [audit EXCEPT ![f].outcomes = @ \o outs]

\* An uncaught exception ends the thread; the finally block still runs.
Crash(w) ==
    /\ worker' = [worker EXCEPT ![w] = Stop(@, "crashed")]
    /\ EndItem(worker[w].task, <<>>)

\* close_all(): closes the log and the store connection
CloseAll == storeOpen' = FALSE

\* task = queue.get() is None: put the counters and break
GetNone(w) ==
    /\ worker[w].pc = "get"
    /\ queue # <<>>
    /\ Head(queue) = 0
    /\ queue' = Tail(queue)
    /\ counter_queue' = Append(counter_queue,
                               <<worker[w].pseudonymized, worker[w].prior>>)
    /\ worker' = [worker EXCEPT ![w] = Stop(@, "exited")]
    /\ UNCHANGED <<diskVars, unfinished, fs_lock, db_lock, mainVars, cliVars, policyVars, histVars, storeOpen,
                   ioErrors>>

\* task = queue.get() is a (root, filename) pair
GetTask(w) ==
    /\ worker[w].pc = "get"
    /\ queue # <<>>
    /\ Head(queue) # 0
    /\ queue' = Tail(queue)
    /\ worker' = [worker EXCEPT ![w].pc = "read", ![w].task = Head(queue)]
    /\ audit' = [audit EXCEPT ![Head(queue)].taken = @ + 1]
    /\ UNCHANGED <<diskVars, unfinished, counter_queue, fs_lock,
                   db_lock, mainVars, cliVars, policyVars, ioFatal, baseline, prevClean, storeOpen,
                   ioErrors>>

\* The thread is about to look at its file, which is of kind k: a file's
\* content is fixed on disk and first seen by the program when it is read.
Reads(w, k) ==
    /\ worker[w].pc = "read"
    /\ k \in KindsLeft(worker[w].task)
    /\ files' = [files EXCEPT ![worker[w].task] = k]

\* A file whose name does not start with '.' is read and the read raises
\* IOError, so that the file does not show its content.
FailsToRead(f) ==
    /\ \E k \in KindsLeft(f) : FileKinds[k].kind # "dot"
    /\ files' = [files EXCEPT ![f] = IF @ = Unseen THEN Unreadable ELSE @]

\* filename.startswith('.'): continue
ReadDot(w) ==
    /\ \E k \in 1..Len(FileKinds) : Reads(w, k) /\ FileKinds[k].kind = "dot"
    /\ worker' = [worker EXCEPT ![w] = Loop(@)]
    /\ EndItem(worker[w].task, <<"skipped">>)
    /\ UNCHANGED <<accTable, hashTable, written, quarantine, dirs, queue, counter_queue, fs_lock,
                   db_lock, mainVars, cliVars, policyVars, ioFatal, baseline, prevClean, storeOpen,
                   ioErrors>>

\* pydicom.read_file raises IOError on a file that is read (its name does not
\* start with '.'): close_all(); return False
ReadIOError(w) ==
    /\ worker[w].pc = "read"
    /\ FailsToRead(worker[w].task)
    /\ ioErrors < MaxIOErrors
    /\ ioErrors' = ioErrors + 1
    /\ CloseAll
    /\ ioFatal' = TRUE
    /\ worker' = [worker EXCEPT ![w] = Stop(@, "failed")]
    /\ EndItem(worker[w].task, <<"unreadable">>)
    /\ UNCHANGED <<accTable, hashTable, written, quarantine, dirs, queue, counter_queue, fs_lock,
                   db_lock, mainVars, cliVars, policyVars, baseline, prevClean>>

\* The input tree: the files lie in two subdirectories of ident_dir, files 1
\* and 2 under the same name (1 in d1, 2 in d0, 3 in d1, ...).
FilePath == [f \in Files |-> [dir |-> f % 2, name |-> (f + 1) \div 2]]

\* quarantine_file: os.path.join(full_quarantine_dir,
\* os.path.basename(filepath)), full_quarantine_dir being self.quarantine
QuarantineName(f) == FilePath[f].name

\* a quarantine_file that copies nothing
QuarantineFileNever(f, reason) == quarantine' = quarantine

\* quarantine_file: shutil.copyfile(filepath, quarantine_name) writes the
\* file of that name in the quarantine tree, over the copy that is there
QuarantineFile(f, reason) ==
    LET copy == [file |-> f, reason |-> reason, live |-> TRUE] IN
    quarantine' =
        { IF QuarantineName(r.file) = QuarantineName(f)
            THEN [r EXCEPT !.live = FALSE] ELSE r :
          r \in { x \in quarantine : x.file # f \/ x.reason # reason } }
        \cup {copy}

\* pydicom.read_file raises InvalidDicomError: quarantine_file; continue
ReadInvalid(w) ==
    /\ \E k \in 1..Len(FileKinds) : Reads(w, k) /\ FileKinds[k].kind = "invalid"
    /\ QuarantineFile(worker[w].task, "Could not read DICOM file.")
    /\ worker' = [worker EXCEPT ![w] = Loop(@)]
    /\ EndItem(worker[w].task, <<"quarantined">>)
    /\ UNCHANGED <<accTable, hashTable, written, dirs, queue, counter_queue,
                   fs_lock, db_lock, mainVars, cliVars, policyVars, ioFatal, baseline, prevClean, storeOpen,
                   ioErrors>>

\* a walk_dicom that starts with register_fingerprint
WalkDicomPcRegisterFirst(k) == "register"

\* walk_dicom starts with check_quarantine(ds), which touches nothing shared:
\* the thread's next step is the quarantine copy (or the exception), or the
\* lookup of the serial.
WalkDicomPc(k) ==
    IF KindVerdict[k].raised \/ KindVerdict[k].move THEN "inspect" ELSE "lookup"

\* read_file returns ds; get_fingerprint(ds) reads ds.PixelData
ReadDicom(w) ==
    /\ \E k \in 1..Len(FileKinds) :
         /\ Reads(w, k)
         /\ FileKinds[k].kind = "dicom"
         /\ IF PIXEL_DATA \in DOMAIN FileKinds[k].ds
              THEN /\ worker' = [worker EXCEPT
                                   ![w].pc = IF skip_prior THEN "fpcheck"
                                             ELSE WalkDicomPc(k)]
                   /\ UNCHANGED <<unfinished, audit>>
              ELSE Crash(w)
    /\ UNCHANGED <<accTable, hashTable, written, quarantine, dirs, queue, counter_queue, fs_lock,
                   db_lock, mainVars, cliVars, policyVars, ioFatal, baseline, prevClean, storeOpen,
                   ioErrors>>

\* an acquire that does not wait for the lock
AcquirableAlways(holder) == TRUE

\* Lock.acquire() returns only when the lock is free
Acquirable(holder) == holder = 0

\* a finally block without the release: the lock stays with its holder
ReleaseForgotten(holder) == holder

\* Lock.release() in the finally blocks: the lock is free again
Release(holder) == 0

\* db_lock.acquire() in fingerprint_exists, pseudonymize and register_fingerprint;
\* pseudonymize reads ds.AccessionNumber before it asks for the lock
DbAcquire(w) ==
    /\ worker[w].pc \in {"fpcheck", "lookup", "register"}
    /\ worker[w].pc = "lookup" => ACCESSION_NUMBER \in DOMAIN DsOf(worker[w].task)
    /\ db_lock # w
    /\ Acquirable(db_lock)
    /\ db_lock' = w
    /\ UNCHANGED <<diskVars, queue, unfinished, worker, counter_queue, fs_lock, mainVars, cliVars,
                   policyVars, histVars, storeOpen, ioErrors>>

\* skip_prior and self.fingerprint_exists(fp, db_lock): get_hash under db_lock,
\* released in the finally
FingerprintExists(w) ==
    /\ worker[w].pc = "fpcheck"
    /\ db_lock = w
    /\ db_lock' = Release(db_lock)
    /\ IF ~storeOpen
         THEN Crash(w)
         ELSE IF IndexGetHash(hashTable, KindFingerprint[files[worker[w].task]])
           THEN /\ worker' = [worker EXCEPT ![w] = Loop([worker[w] EXCEPT !.prior = @ + 1])]
                /\ EndItem(worker[w].task, <<"prior">>)
           ELSE /\ worker' = [worker EXCEPT ![w].pc = WalkDicomPc(files[worker[w].task])]
                /\ UNCHANGED <<unfinished, audit>>
    /\ UNCHANGED <<diskVars, queue, counter_queue, fs_lock, mainVars, cliVars, policyVars, ioFatal,
                   baseline, prevClean, storeOpen, ioErrors>>

\* walk_dicom: check_quarantine(ds) says move: quarantine_file; return False
Inspect(w) ==
    /\ worker[w].pc = "inspect"
    /\ LET v == KindVerdict[files[worker[w].task]] IN
         IF v.raised
           THEN Crash(w) /\ UNCHANGED quarantine
           ELSE /\ QuarantineFile(worker[w].task, v.reason)
                /\ worker' = [worker EXCEPT ![w] = Loop(@)]
                /\ EndItem(worker[w].task, <<"quarantined">>)
    /\ UNCHANGED <<files, accTable, hashTable, written, dirs, queue, counter_queue,
                   fs_lock, db_lock, mainVars, cliVars, policyVars, ioFatal, baseline, prevClean, storeOpen,
                   ioErrors>>

\* pseudonymize without its check of serial_num
NoSerialUnchecked(serial) == FALSE

\* pseudonymize: if serial_num is None: raise ValueError
NoSerial(serial) == serial = None

\* pseudonymize(ds, db_lock): ds.AccessionNumber, index.get under db_lock; on
\* ValueError walk_dicom quarantines; else the policy runs and
\* os.makedirs(destination_dir) makes the serial's directory
Lookup(w) ==
    /\ worker[w].pc = "lookup"
    /\ ACCESSION_NUMBER \in DOMAIN DsOf(worker[w].task) => db_lock = w
    /\ db_lock' = IF db_lock = w THEN Release(db_lock) ELSE db_lock
    /\ LET f == worker[w].task
           serial == IndexGet(accTable, Text(DsOf(f)[ACCESSION_NUMBER])) IN
         IF ACCESSION_NUMBER \notin DOMAIN DsOf(f) \/ ~storeOpen
           THEN Crash(w) /\ UNCHANGED <<quarantine, dirs>>
           ELSE IF NoSerial(serial)
             THEN /\ QuarantineFile(f, "Error running pseudonymize function.")
                  /\ worker' = [worker EXCEPT ![w] = Loop(@)]
                  /\ unfinished' = unfinished - 1
                  /\ audit' = [audit EXCEPT ![f].outcomes = Append(@, "quarantined"),
                                            ![f].noSerial = (serial = None)]
                  /\ UNCHANGED dirs
             ELSE /\ worker' = [worker EXCEPT ![w].pc = "alloc",
                                              ![w].serial_num = serial]
                  /\ dirs' = dirs \cup {serial}
                  /\ audit' = [audit EXCEPT ![f].noSerial = (serial = None)]
                  /\ UNCHANGED <<quarantine, unfinished>>
    /\ UNCHANGED <<files, accTable, hashTable, written, queue, counter_queue,
                   fs_lock, mainVars, cliVars, policyVars, ioFatal, baseline, prevClean, storeOpen,
                   ioErrors>>

\* os.listdir(destination_dir): the names of the files in the serial's directory
NamesIn(serial) == { r.n : r \in { x \in written : x.serial = serial } }

\* fs_lock.acquire(); count = len(os.listdir(destination_dir) ...)
Alloc(w) ==
    /\ worker[w].pc = "alloc"
    /\ Acquirable(fs_lock)
    /\ fs_lock' = w
    /\ worker' = [worker EXCEPT ![w].pc = "save",
                                ![w].count = Cardinality(NamesIn(worker[w].serial_num))]
    /\ UNCHANGED <<diskVars, queue, unfinished, counter_queue, db_lock, mainVars, cliVars, policyVars,
                   histVars, storeOpen, ioErrors>>

\* ds.save_as("%d.dcm" % (count + 1)); fs_lock.release()
SaveOk(w) ==
    /\ worker[w].pc = "save"
    /\ written' = written \cup {[file |-> worker[w].task, proc |-> proc,
                                 serial |-> worker[w].serial_num,
                                 n |-> worker[w].count + 1]}
    /\ fs_lock' = Release(fs_lock)
    /\ worker' = [worker EXCEPT ![w].pc = "register"]
    /\ audit' = [audit EXCEPT ![worker[w].task].outcomes = Append(@, "written")]
    /\ UNCHANGED <<files, accTable, hashTable, quarantine, dirs, queue, unfinished,
                   counter_queue, db_lock, mainVars, cliVars, policyVars, ioFatal, baseline, prevClean,
                   storeOpen, ioErrors>>

\* ds.save_as raises IOError: close_all(); fs_lock.release(); walk_dicom
\* returns False to run_worker, whose loop goes on
SaveIOError(w) ==
    /\ worker[w].pc = "save"
    /\ ioErrors < MaxIOErrors
    /\ ioErrors' = ioErrors + 1
    /\ CloseAll
    /\ ioFatal' = TRUE
    /\ fs_lock' = Release(fs_lock)
    /\ worker' = [worker EXCEPT ![w] = Loop(@)]
    /\ EndItem(worker[w].task, <<"write failed">>)
    /\ UNCHANGED <<diskVars, queue, counter_queue, db_lock, mainVars, cliVars, policyVars, baseline,
                   prevClean>>

\* register_fingerprint(fingerprint, db_lock); return True; pseudonymized += 1
Register(w) ==
    /\ worker[w].pc = "register"
    /\ db_lock = w
    /\ db_lock' = Release(db_lock)
    /\ IF ~storeOpen
         THEN Crash(w) /\ UNCHANGED hashTable
         ELSE /\ hashTable' = IndexInsertHash(hashTable,
                                              KindFingerprint[files[worker[w].task]])
              /\ worker' = [worker EXCEPT
                              ![w] = Loop([worker[w] EXCEPT !.pseudonymized = @ + 1])]
              /\ EndItem(worker[w].task, <<>>)
    /\ UNCHANGED <<files, accTable, written, quarantine, dirs, queue, counter_queue,
                   fs_lock, mainVars, cliVars, policyVars, ioFatal, baseline, prevClean, storeOpen,
                   ioErrors>>

RunWorker(w) ==
    \/ GetNone(w)
    \/ GetTask(w)
    \/ ReadDot(w)
    \/ ReadIOError(w)
    \/ ReadInvalid(w)
    \/ ReadDicom(w)
    \/ DbAcquire(w)
    \/ FingerprintExists(w)
    \/ Inspect(w)
    \/ Lookup(w)
    \/ Alloc(w)
    \/ SaveOk(w)
    \/ SaveIOError(w)
    \/ Register(w)

\* One process: run() over the input tree.
Next ==
    \/ \E n \in 1..MaxWorkers, skip \in BOOLEAN : RunStart(n, skip)
    \/ RunPoison
    \/ RunReturn
    \/ \E w \in Workers : RunWorker(w)

Spec == Init /\ [][Next]_vars

\* The program run again and again over the same disk state.
NextRerun ==
    \/ Next
    \/ Restart

SpecRerun == Init /\ [][NextRerun]_vars

\* ------------------------------------------------------------- properties
WrittenNow(f) == { r \in written : r.file = f /\ r.proc = proc }
Quarantined(f) == \E q \in quarantine : q.file = f
WritesTo(serial) == { r \in written : r.serial = serial }

C2_OneOfTwoDuplicatesWritten ==
    skip_prior =>
        \A r1, r2 \in written :
            (r1.proc = proc /\ r2.proc = proc /\ r1.file # r2.file)
                => KindFingerprint[files[r1.file]] # KindFingerprint[files[r2.file]]

\* C3: when run() has returned without a fatal I/O error and the program is
\* then run again with duplicate-skip enabled over the same input tree and
\* store, the rerun adds no file to the output tree.
C3_RerunAddsNoOutput ==
    (proc > 1 /\ prevClean /\ mainpc # "start" /\ skip_prior) => written = baseline

C3_Witness ==
    /\ proc > 1
    /\ prevClean
    /\ skip_prior
    /\ mainpc = "returned"
    /\ baseline # {}
    /\ result.prior > 0

\* C5: the names in every serial directory are 1..k after k writes into it: no
\* two writes went to the same path and no existing output file was overwritten.
C5_SequentialNames ==
    \A s \in dirs : NamesIn(s) = 1..Cardinality(WritesTo(s))

C5_Witness ==
    \E s \in dirs :
        /\ num_workers > 1
        /\ \E r1, r2 \in WritesTo(s) : r1.proc = proc /\ r2.proc = proc /\ r1.n # r2.n
        /\ \E r \in WritesTo(s) : r.proc < proc

\* C6: in a run without I/O error, run() is never left blocked, and when it has
\* returned every queued file was taken once, reached exactly one terminal
\* outcome, and every worker thread has ended.
C6_EveryItemOneOutcome ==
    ~ioFatal =>
        /\ (mainpc # "returned" => ENABLED Next)
        /\ (mainpc = "returned" =>
                /\ \A f \in Files : audit[f].taken = 1 /\ Len(audit[f].outcomes) = 1
                /\ \A w \in 1..num_workers : worker[w].pc \in Ended)

\* C7: once a worker has hit a fatal I/O error and closed the store, no output
\* file is written, no file is copied to quarantine and the store is not changed.
C7_NothingAfterFatal ==
    [][ioFatal => /\ written' = written
                  /\ quarantine' = quarantine
                  /\ hashTable' = hashTable
                  /\ accTable' = accTable]_vars

\* C8: after a worker hit an I/O error, run() still gets to return: it is
\* never left blocked with nothing able to move.
C8_RunReturnsAfterIOError ==
    ioFatal => (mainpc = "returned" \/ ENABLED Next)

\* C9: the value run() returns is success only if no worker hit a fatal I/O
\* error during the run.
C9_RunReportsFailure ==
    mainpc = "returned" => (result.ret = "True" <=> ~ioFatal)

\* --------------------------------------------------- the command line program
\* Index.search('%' + frag + '%'): the rows whose original is LIKE the pattern
\* (LIKE ignores the case of letters).  The statement has no ORDER BY, so
\* which of the rows comes first is not fixed.
SearchRows(tab, frag) ==
    { i \in 1..Len(tab) : Contains(Lower(frag), Lower(tab[i].original)) }

\* DicomPseudon.fingerprints_exist: the fingerprints table exists, which it
\* does from the first insert_hash on
fingerprints_exist == hashTable # {}

\* The program is started in a directory without index file or indexed.lock.
InitCli ==
    /\ PipelineInit({ <<>> }, "main")
    /\ indexed_lock = FALSE
    /\ last_exit = NoExit
    /\ links_file = LinksFile
    /\ PolicyIdle

\* index_built() and prompt_skip_build_index() answered y: build_index skipped
MainSkipBuildIndex ==
    /\ mainpc = "main"
    /\ indexed_lock
    /\ mainpc' = "start"
    /\ UNCHANGED <<diskVars, poolVars, proc, skip_prior, num_workers, result,
                   histVars, storeOpen, ioErrors, cliVars, policyVars>>

\* build_index up to queue.join(): fill the queue, start the one thread
BuildStart ==
    /\ mainpc = "main"
    /\ queue' = [i \in 1..NumFiles |-> i]
    /\ unfinished' = NumFiles
    /\ worker' = [w \in Workers |-> IF w = 1 THEN [IdleWorker EXCEPT !.pc = "bget"]
                                             ELSE IdleWorker]
    /\ mainpc' = "build_join"
    /\ UNCHANGED <<diskVars, counter_queue, fs_lock, db_lock, proc, skip_prior, num_workers,
                   result, histVars, storeOpen, ioErrors, cliVars, policyVars>>

\* build_index_worker takes a (root, filename) item; the finally block calls
\* queue.task_done()
BuildGets ==
    /\ worker[1].pc = "bget"
    /\ queue # <<>>
    /\ Head(queue) # 0
    /\ queue' = Tail(queue)
    /\ unfinished' = unfinished - 1

\* build_index_worker takes an item, a file of kind k
BuildTakes(k) ==
    /\ BuildGets
    /\ k \in KindsLeft(Head(queue))
    /\ files' = [files EXCEPT ![Head(queue)] = k]

\* filename.startswith('.') or InvalidDicomError: continue
BuildSkip ==
    /\ \E k \in 1..Len(FileKinds) :
          BuildTakes(k) /\ FileKinds[k].kind \in {"dot", "invalid"}
    /\ UNCHANGED <<accTable, hashTable, written, quarantine, dirs, worker,
                   counter_queue, fs_lock, db_lock, mainVars, histVars, storeOpen,
                   ioErrors, cliVars, policyVars>>

\* pydicom.read_file raises IOError: close_all(); return False
BuildIOError ==
    /\ BuildGets
    /\ FailsToRead(Head(queue))
    /\ ioErrors < MaxIOErrors
    /\ ioErrors' = ioErrors + 1
    /\ CloseAll
    /\ ioFatal' = TRUE
    /\ worker' = [worker EXCEPT ![1] = Stop(@, "failed")]
    /\ UNCHANGED <<accTable, hashTable, written, quarantine, dirs, counter_queue,
                   fs_lock, db_lock, mainVars, audit, baseline, prevClean, cliVars,
                   policyVars>>

\* self.index.insert(ds.AccessionNumber)
BuildInsert ==
    /\ \E k \in 1..Len(FileKinds) :
          /\ BuildTakes(k)
          /\ FileKinds[k].kind = "dicom"
          /\ ACCESSION_NUMBER \in DOMAIN FileKinds[k].ds
          /\ accTable' = IndexInsert(accTable, Text(FileKinds[k].ds[ACCESSION_NUMBER]))
    /\ UNCHANGED <<hashTable, written, quarantine, dirs, worker, counter_queue,
                   fs_lock, db_lock, mainVars, histVars, storeOpen, ioErrors, cliVars,
                   policyVars>>

\* ds.AccessionNumber raises AttributeError, which ends the thread
BuildCrash ==
    /\ \E k \in 1..Len(FileKinds) :
          /\ BuildTakes(k)
          /\ FileKinds[k].kind = "dicom"
          /\ ACCESSION_NUMBER \notin DOMAIN FileKinds[k].ds
    /\ worker' = [worker EXCEPT ![1] = Stop(@, "crashed")]
    /\ UNCHANGED <<accTable, hashTable, written, quarantine, dirs, counter_queue,
                   fs_lock, db_lock, mainVars, histVars, storeOpen, ioErrors, cliVars,
                   policyVars>>

\* task = queue.get() is None: break
BuildGetNone ==
    /\ worker[1].pc = "bget"
    /\ queue # <<>>
    /\ Head(queue) = 0
    /\ queue' = Tail(queue)
    /\ worker' = [worker EXCEPT ![1] = Stop(@, "exited")]
    /\ UNCHANGED <<diskVars, unfinished, counter_queue, fs_lock, db_lock, mainVars, histVars,
                   storeOpen, ioErrors, cliVars, policyVars>>

\* build_index: queue.join() returns; one None is put
BuildPoison ==
    /\ mainpc = "build_join"
    /\ unfinished = 0
    /\ queue' = Append(queue, 0)
    /\ mainpc' = "build_thread_join"
    /\ UNCHANGED <<diskVars, unfinished, worker, counter_queue, fs_lock, db_lock, proc,
                   skip_prior, num_workers, result, histVars, storeOpen,
                   ioErrors, cliVars, policyVars>>

\* a loop that takes no invitation number for seen
SeenNever(invitation_num, seen) == FALSE

\* if invitation_num in invitation_num_set
Seen(invitation_num, seen) == invitation_num \in seen

\* build_index after t.join(), one pass of the loop over the links file: a
\* repeated invitation number is skipped; else it is added to the set and
\* searched for; without a match the line is skipped, else the serial of the
\* matching row is updated.  On a store closed by the thread the search
\* raises ProgrammingError, which ends the program.
BuildLinkRow ==
    /\ mainpc = "build_thread_join"
    /\ worker[1].pc \in Ended \cup {"off"}
    /\ line_num <= Len(links_file)
    /\ LET line == links_file[line_num] IN
         IF Seen(line.invitation, invitation_num_set)
           THEN /\ line_num' = line_num + 1
                /\ UNCHANGED <<accTable, invitation_num_set, mainpc>>
         ELSE IF ~storeOpen
           THEN /\ invitation_num_set' = invitation_num_set \cup {line.invitation}
                /\ mainpc' = "died"
                /\ UNCHANGED <<accTable, line_num>>
         ELSE /\ invitation_num_set' = invitation_num_set \cup {line.invitation}
              /\ line_num' = line_num + 1
              /\ IF SearchRows(accTable, line.invitation) = {}
                   THEN UNCHANGED accTable
                   ELSE \E i \in SearchRows(accTable, line.invitation) :
                           accTable' = IndexUpdate(accTable, accTable[i].original,
                                                   line.serial)
              /\ UNCHANGED mainpc
    /\ UNCHANGED <<files, hashTable, written, quarantine, dirs, poolVars, proc,
                   skip_prior, num_workers, result, histVars, storeOpen,
                   ioErrors, indexed_lock, last_exit, links_file, policyVars>>

\* build_index after the loop: indexed.lock is written
BuildLinks ==
    /\ mainpc = "build_thread_join"
    /\ worker[1].pc \in Ended \cup {"off"}
    /\ line_num > Len(links_file)
    /\ indexed_lock' = TRUE
    /\ mainpc' = "start"
    /\ UNCHANGED <<diskVars, poolVars, proc, skip_prior, num_workers, result,
                   histVars, storeOpen, ioErrors, last_exit, linkVars, policyVars>>

\* build_index after the loop: writing indexed.lock raises IOError:
\* close_all(); return.  fingerprints_exist() then raises ProgrammingError on
\* the closed store, which ends the program.
BuildLockIOError ==
    /\ mainpc = "build_thread_join"
    /\ worker[1].pc \in Ended \cup {"off"}
    /\ line_num > Len(links_file)
    /\ CloseAll
    /\ mainpc' = "died"
    /\ UNCHANGED <<diskVars, poolVars, proc, skip_prior, num_workers, result,
                   histVars, ioErrors, cliVars, policyVars>>

\* a lock file that cannot be removed
RemoveLockNever(lock) == FALSE

\* os.remove(INDEXED_LOCK_FNAME) succeeds when the file exists, else OSError
RemoveLockOk(lock) == lock

\* DicomPseudon.clean_up, called after run() has returned: indexed.lock and
\* the index file are removed; after an OSError on the first the second stays
clean_up ==
    /\ mainpc = "returned"
    /\ last_exit' = [how |-> "finished", acc |-> accTable, hashes |-> hashTable]
    /\ IF RemoveLockOk(indexed_lock)
         THEN /\ indexed_lock' = FALSE
              /\ accTable' = <<>>
              /\ hashTable' = {}
         ELSE UNCHANGED <<indexed_lock, accTable, hashTable>>
    /\ mainpc' = "finished"
    /\ UNCHANGED <<files, written, quarantine, dirs, poolVars, proc, skip_prior,
                   num_workers, result, histVars, storeOpen, ioErrors, linkVars,
                   policyVars>>

\* The program is killed from outside while the main thread waits in
\* queue.join(), be it hanging there or not.
Interrupt ==
    /\ mainpc \in {"build_join", "queue_join"}
    /\ mainpc' = "killed"
    /\ UNCHANGED <<diskVars, poolVars, proc, skip_prior, num_workers, result,
                   histVars, storeOpen, ioErrors, cliVars, policyVars>>

\* The program is started again in the same directory, over the same input
\* tree, output tree and links file.
CliRestart ==
    /\ mainpc \in {"finished", "died", "killed"}
    /\ proc < MaxProcs
    /\ proc' = proc + 1
    /\ mainpc' = "main"
    /\ storeOpen' = TRUE
    /\ queue' = <<>>
    /\ unfinished' = 0
    /\ worker' = [w \in Workers |-> IdleWorker]
    /\ counter_queue' = <<>>
    /\ fs_lock' = 0
    /\ db_lock' = 0
    /\ result' = [ret |-> "unset", pseudonymized |-> 0, prior |-> 0]
    /\ ioErrors' = 0
    /\ ioFatal' = FALSE
    /\ audit' = [f \in Files |-> NoAudit]
    /\ baseline' = written
    /\ prevClean' = (mainpc = "finished" /\ ~ioFatal)
    /\ last_exit' = IF mainpc = "finished" THEN last_exit
                    ELSE [how |-> mainpc, acc |-> accTable, hashes |-> hashTable]
    /\ line_num' = 1
    /\ invitation_num_set' = {}
    /\ UNCHANGED <<diskVars, skip_prior, num_workers, indexed_lock, links_file,
                   policyVars>>

\* __main__: run() gets skip_prior from prompt_skip_prior, which is asked only
\* when fingerprints_exist()
NextCli ==
    \/ MainSkipBuildIndex
    \/ BuildStart
    \/ BuildSkip
    \/ BuildIOError
    \/ BuildInsert
    \/ BuildCrash
    \/ BuildGetNone
    \/ BuildPoison
    \/ BuildLinkRow
    \/ BuildLinks
    \/ BuildLockIOError
    \/ \E n \in 1..MaxWorkers, skip \in BOOLEAN :
          (skip => fingerprints_exist) /\ RunStart(n, skip)
    \/ RunPoison
    \/ RunReturn
    \/ \E w \in Workers : RunWorker(w)
    \/ clean_up
    \/ Interrupt
    \/ CliRestart
SpecCli == InitCli /\ [][NextCli]_vars

\* A new process has just been started, after one that ended as how says.
StartedAfter(how) == proc > 1 /\ mainpc = "main" /\ last_exit.how = how

\* C4 (as stated): after a run of the command line program that completed
\* normally, the serial mappings and registered fingerprints the store held
\* are still there for the next run.
C4_StoreKeptForNextRun ==
    StartedAfter("finished") =>
        (accTable = last_exit.acc /\ hashTable = last_exit.hashes)

\* C4 (amended): a run of the command line program that completes ends with
\* clean_up, which removes indexed.lock and the index file, so the next run
\* starts from an empty store; the store is kept as it was only when the
\* program ended before clean_up (killed, or ended by an exception).
C4_StoreRemovedByCleanUp ==
    /\ StartedAfter("finished") =>
          (accTable = <<>> /\ hashTable = {} /\ ~indexed_lock)
    /\ (StartedAfter("killed") \/ StartedAfter("died")) =>
          (accTable = last_exit.acc /\ hashTable = last_exit.hashes)

\* The next run starts after a completed run that had linked a serial and
\* registered a fingerprint.
C4_Witness ==
    /\ StartedAfter("finished")
    /\ last_exit.hashes # {}
    /\ \E i \in 1..Len(last_exit.acc) : last_exit.acc[i].serial # None

\* ------------------------------------------------------ the attribute policy
\* Largest number of distinct tags a walked dataset is drawn from.
MaxTags == 4

\* Tags the walked datasets are drawn from: required (AccessionNumber,
\* PatientName), pixel module (Rows, PixelData) and neither (InstitutionName,
\* OtherPatientIDs).
PolicyTagSeq ==
    << ACCESSION_NUMBER, <<40, 16>>, <<8, 128>>, <<16, 16>>, PIXEL_DATA, <<16, 4096>> >>
PolicyTags == { PolicyTagSeq[i] : i \in 1..MaxTags }

\* Values of an element: None, the empty string, a text.
PolicyValues == { NoneElem, Elem(<<>>), Elem(<<"v">>) }

\* Order of tags: by group, then element.
TagLess(a, b) == a[1] < b[1] \/ (a[1] = b[1] /\ a[2] < b[2])
\* sorted(self._dict.keys())
RECURSIVE SortedTags(_)
SortedTags(S) ==
    IF S = {} THEN <<>>
    ELSE LET m == CHOOSE a \in S : \A b \in S \ {a} : TagLess(a, b)
         IN  <<m>> \o SortedTags(S \ {m})

\* DicomPseudon.white_list_handler
white_list_handler(wl, t) == t \in wl

\* a policy that knows no required tag
InRequiredNever(t) == FALSE

\* REQUIRED_TAGS.get(t, None)
InRequired(t) == t \in REQUIRED_TAGS

\* PIXEL_MODULE_TAGS.get(t, None)
InPixelModule(t) == t \in PIXEL_MODULE_TAGS

\* a delete that leaves the element in the dataset
DelTagNever(ds, t) == ds

\* del ds[e.tag]
DelTag(ds, t) == [u \in (DOMAIN ds) \ {t} |-> ds[u]]

\* if cleaned is not None and e.tag in ds and ds[e.tag].value is not None:
\*     ds[e.tag].value = cleaned
SetCleaned(ds, t, cleaned) ==
    IF t \in DOMAIN ds /\ ~ds[t].none THEN [ds EXCEPT ![t] = Elem(cleaned)] ELSE ds

\* DicomPseudon.clean(ds, e) for the element of tag t: the dataset afterwards
clean(ds, t, wl) ==
    IF white_list_handler(wl, t) THEN ds
    ELSE IF InRequired(t) THEN SetCleaned(ds, t, <<>>)
    ELSE IF InPixelModule(t) THEN ds
    ELSE SetCleaned(DelTag(ds, t), t, REMOVED_TEXT)

\* Tags the walked file-meta mappings are drawn from: allowed
\* (MediaStorageSOPInstanceUID, TransferSyntaxUID), not allowed
\* (PrivateInformationCreatorUID), and, to see that the meta policy does not
\* look at them, a required tag and a pixel-module tag.
MetaTagSeq ==
    << MEDIA_STORAGE_SOP_INSTANCE_UID, <<2, 256>>, ACCESSION_NUMBER, <<40, 16>>,
       <<2, 16>>, <<2, 258>> >>
MetaTags == { MetaTagSeq[i] : i \in 1..MaxTags }

\* a meta policy that knows no allowed tag
InAllowedFileMetaNever(t) == FALSE

\* ALLOWED_FILE_META.get((e.tag.group, e.tag.element), None)
InAllowedFileMeta(t) == t \in ALLOWED_FILE_META

\* DicomPseudon.clean_meta(ds, e) for the element of tag t: the mapping afterwards
clean_meta(ds, t, wl) ==
    IF InAllowedFileMeta(t) THEN ds
    ELSE IF ~white_list_handler(wl, t) THEN DelTag(ds, t)
    ELSE ds

\* pseudonymize enters ds.file_meta.walk(self.clean_meta) or
\* ds.walk(partial(self.clean)) on a mapping, under a whitelist.
InitPolicy ==
    /\ PipelineInit({ StoreChoices[1] }, "start")
    /\ indexed_lock = TRUE
    /\ last_exit = NoExit
    /\ links_file = LinksFile
    /\ walk_kind \in {"meta", "main"}
    /\ white_list \in SUBSET (IF walk_kind = "meta" THEN MetaTags ELSE PolicyTags)
    /\ \E D \in SUBSET (IF walk_kind = "meta" THEN MetaTags ELSE PolicyTags) :
          walk_orig \in [D -> PolicyValues]
    /\ walk_ds = walk_orig
    /\ taglist = SortedTags(DOMAIN walk_orig)
    /\ saved_ds = <<>>

\* Dataset.walk: the callback is called on the next element of taglist
WalkClean ==
    /\ walk_kind = "main"
    /\ taglist # <<>>
    /\ walk_ds' = clean(walk_ds, Head(taglist), white_list)
    /\ taglist' = Tail(taglist)
    /\ UNCHANGED <<diskVars, poolVars, mainVars, histVars, storeOpen, ioErrors,
                   cliVars, white_list, walk_kind, walk_orig, saved_ds>>

\* Dataset.walk over ds.file_meta: clean_meta is called on the next element
WalkCleanMeta ==
    /\ walk_kind = "meta"
    /\ taglist # <<>>
    /\ walk_ds' = clean_meta(walk_ds, Head(taglist), white_list)
    /\ taglist' = Tail(taglist)
    /\ UNCHANGED <<diskVars, poolVars, mainVars, histVars, storeOpen, ioErrors,
                   cliVars, white_list, walk_kind, walk_orig, saved_ds>>

NextPolicy ==
    \/ WalkClean
    \/ WalkCleanMeta
SpecPolicy == InitPolicy /\ [][NextPolicy]_vars

\* What the policy leaves of the element of tag t once the walk is over.
Unchanged(t) == t \in DOMAIN walk_ds /\ walk_ds[t] = walk_orig[t]
Blanked(t) == t \in DOMAIN walk_ds /\ walk_ds[t] = Elem(<<>>)
Deleted(t) == t \notin DOMAIN walk_ds
WalkOver == walk_kind = "main" /\ taglist = <<>>
MetaWalkOver == walk_kind = "meta" /\ taglist = <<>>

\* C10 (as stated): after the walk, every attribute of the main mapping is,
\* by precedence, unchanged when whitelisted, else retained with the empty
\* string as value when required, else unchanged when in the pixel module,
\* else deleted.
C10_PrecedenceAsStated ==
    WalkOver =>
        \A t \in DOMAIN walk_orig :
            IF t \in white_list THEN Unchanged(t)
            ELSE IF t \in REQUIRED_TAGS THEN Blanked(t)
            ELSE IF t \in PIXEL_MODULE_TAGS THEN Unchanged(t)
            ELSE Deleted(t)

\* C10 (amended): the same precedence, but a required, non-whitelisted
\* attribute whose value is None keeps the value None; it is set to the empty
\* string only when it has a value, and is never deleted.
C10_PrecedenceNoneKept ==
    WalkOver =>
        \A t \in DOMAIN walk_orig :
            IF t \in white_list THEN Unchanged(t)
            ELSE IF t \in REQUIRED_TAGS
              THEN IF walk_orig[t].none THEN Unchanged(t) ELSE Blanked(t)
            ELSE IF t \in PIXEL_MODULE_TAGS THEN Unchanged(t)
            ELSE Deleted(t)

\* A finished walk that met all four cases, the required attribute with a text.
C10_Witness ==
    /\ WalkOver
    /\ \E t \in DOMAIN walk_orig : t \in white_list /\ t \in REQUIRED_TAGS
    /\ \E t \in DOMAIN walk_orig :
          t \notin white_list /\ t \in REQUIRED_TAGS
          /\ walk_orig[t] = Elem(<<"v">>) /\ Blanked(t)
    /\ \E t \in DOMAIN walk_orig :
          t \notin white_list /\ t \in PIXEL_MODULE_TAGS /\ Unchanged(t)
    /\ \E t \in DOMAIN walk_orig :
          t \notin white_list /\ t \notin REQUIRED_TAGS
          /\ t \notin PIXEL_MODULE_TAGS /\ Deleted(t)

FileTagSeq ==
    << ACCESSION_NUMBER, PIXEL_DATA, MODALITY, <<40, 16>>, <<16, 16>>, <<8, 128>> >>
FileTags == { FileTagSeq[i] : i \in 1..MaxTags }
FileValues(t) ==
    IF t = ACCESSION_NUMBER THEN { Elem(A1), Elem(A2) }
    ELSE IF t = MODALITY THEN { Elem(<<"M","R">>), Elem(<<"U","S">>) }
    ELSE PolicyValues

\* The task's file has been read by pydicom.read_file, skip_prior is False.
InitFile ==
    /\ PipelineInit({ StoreChoices[1] }, "start")
    /\ indexed_lock = TRUE
    /\ last_exit = NoExit
    /\ links_file = LinksFile
    /\ walk_kind = "read"
    /\ white_list \in SUBSET FileTags
    /\ \E D \in SUBSET FileTags :
          walk_orig \in { d \in [D -> UNION { FileValues(t) : t \in FileTags }] :
                            \A t \in D : d[t] \in FileValues(t) }
    /\ walk_ds = walk_orig
    /\ taglist = <<>>
    /\ saved_ds = <<>>

\* a restore that leaves the cleared value
RestoreNothing(ds, bytes) == ds

\* run_worker: ds[PIXEL_DATA].value = bytes
RestorePixelData(ds, bytes) == [ds EXCEPT ![PIXEL_DATA] = bytes]

\* fp, bytes = self.get_fingerprint(ds): bytes = ds.PixelData (AttributeError
\* without the element), ds[PIXEL_DATA].value = ''; then the restore
FileFingerprint ==
    /\ walk_kind = "read"
    /\ IF PIXEL_DATA \notin DOMAIN walk_ds
         THEN walk_kind' = "crashed" /\ UNCHANGED walk_ds
         ELSE /\ walk_ds' = RestorePixelData(get_fingerprint(walk_ds),
                                              walk_ds[PIXEL_DATA])
              /\ walk_kind' = "inspect"
    /\ UNCHANGED <<diskVars, poolVars, mainVars, histVars, storeOpen, ioErrors,
                   cliVars, white_list, taglist, walk_orig, saved_ds>>

\* walk_dicom: move, reason = self.check_quarantine(ds); quarantine_file
FileInspect ==
    /\ walk_kind = "inspect"
    /\ LET v == check_quarantine(walk_ds) IN
         IF v.raised THEN walk_kind' = "crashed" /\ UNCHANGED quarantine
         ELSE IF v.move
           THEN QuarantineFile(1, v.reason) /\ walk_kind' = "quarantined"
           ELSE walk_kind' = "lookup" /\ UNCHANGED quarantine
    /\ UNCHANGED <<files, accTable, hashTable, written, dirs, poolVars, mainVars,
                   histVars, storeOpen, ioErrors, cliVars, white_list, walk_ds,
                   taglist, walk_orig, saved_ds>>

\* pseudonymize up to the walks: ds.AccessionNumber, index.get, the check of
\* serial_num (ValueError: walk_dicom quarantines the file)
FilePseudonymize ==
    /\ walk_kind = "lookup"
    /\ IF ACCESSION_NUMBER \notin DOMAIN walk_ds
         THEN walk_kind' = "crashed" /\ UNCHANGED <<quarantine, worker, taglist>>
         ELSE LET serial == IndexGet(accTable, Text(walk_ds[ACCESSION_NUMBER])) IN
           IF NoSerial(serial)
             THEN /\ QuarantineFile(1, "Error running pseudonymize function.")
                  /\ walk_kind' = "quarantined"
                  /\ UNCHANGED <<worker, taglist>>
             ELSE /\ worker' = [worker EXCEPT ![1].serial_num = serial]
                  /\ taglist' = SortedTags(DOMAIN walk_ds)
                  /\ walk_kind' = "main"
                  /\ UNCHANGED quarantine
    /\ UNCHANGED <<files, accTable, hashTable, written, dirs, queue, unfinished,
                   counter_queue, fs_lock, db_lock, mainVars, histVars, storeOpen, ioErrors,
                   cliVars, white_list, walk_ds, walk_orig, saved_ds>>

\* a walk_dicom that leaves the accession number as the policy left it
SetAccessionNever(ds, serial_num) == ds

\* walk_dicom: ds[ACCESSION_NUMBER].value = serial_num
SetAccession(ds, serial_num) == [ds EXCEPT ![ACCESSION_NUMBER] = Elem(serial_num)]

\* a walk_dicom that sets neither audit attribute
SetIdentityRemovedNever(ds) == ds

\* walk_dicom: Patient Identity Removed and De-identification Method are set
SetIdentityRemoved(ds) ==
    (<<18, 98>> :> Elem(<<"Y","E","S">>))
    @@ (<<18, 99>> :> Elem(DE_IDENTIFICATION_METHOD)) @@ ds

\* walk_dicom after pseudonymize: os.makedirs(clean_dir/serial_num), the
\* three assignments, ds.save_as("%d.dcm" % (count + 1)) under fs_lock
FileSave ==
    /\ walk_kind = "main"
    /\ taglist = <<>>
    /\ dirs' = dirs \cup {worker[1].serial_num}
    /\ IF ACCESSION_NUMBER \notin DOMAIN walk_ds
         THEN walk_kind' = "crashed" /\ UNCHANGED <<written, saved_ds>>
         ELSE /\ saved_ds' = SetIdentityRemoved(
                                SetAccession(walk_ds, worker[1].serial_num))
              /\ written' = written \cup
                    {[file |-> 1, proc |-> proc, serial |-> worker[1].serial_num,
                      n |-> Cardinality(NamesIn(worker[1].serial_num)) + 1]}
              /\ walk_kind' = "saved"
    /\ UNCHANGED <<files, accTable, hashTable, quarantine, poolVars, mainVars,
                   histVars, storeOpen, ioErrors, cliVars, white_list, walk_ds,
                   taglist, walk_orig>>

\* ds.save_as raises IOError: close_all(); return False
FileSaveIOError ==
    /\ walk_kind = "main"
    /\ taglist = <<>>
    /\ ACCESSION_NUMBER \in DOMAIN walk_ds
    /\ ioErrors < MaxIOErrors
    /\ ioErrors' = ioErrors + 1
    /\ storeOpen' = FALSE
    /\ dirs' = dirs \cup {worker[1].serial_num}
    /\ walk_kind' = "write failed"
    /\ UNCHANGED <<files, accTable, hashTable, written, quarantine, poolVars,
                   mainVars, histVars, cliVars, white_list, walk_ds, taglist,
                   walk_orig, saved_ds>>

NextFile ==
    \/ FileFingerprint
    \/ FileInspect
    \/ FilePseudonymize
    \/ WalkClean
    \/ FileSave
    \/ FileSaveIOError

SpecFile == InitFile /\ [][NextFile]_vars

\* C12: in every written output file, under every whitelist, each
\* pixel-module attribute the input had (the pixel data, cleared for the
\* fingerprint and restored, among them) is present with the value it had.
C12_PixelModuleKept ==
    walk_kind = "saved" =>
        \A t \in (DOMAIN walk_orig) \cap PIXEL_MODULE_TAGS :
            t \in DOMAIN saved_ds /\ saved_ds[t] = walk_orig[t]

\* A file was written whose input had pixel data and another pixel-module
\* attribute with a text value, neither of them whitelisted.
C12_Witness ==
    /\ walk_kind = "saved"
    /\ written # {}
    /\ PIXEL_DATA \in DOMAIN walk_orig /\ walk_orig[PIXEL_DATA] = Elem(<<"v">>)
    /\ <<40, 16>> \in DOMAIN walk_orig /\ walk_orig[<<40, 16>>] = Elem(<<"v">>)
    /\ white_list \cap PIXEL_MODULE_TAGS = {}

\* C13: every written output has the accession attribute, with the serial the
\* store holds for the input's accession number as value, and lies in the
\* directory named by that serial, the accession tag whitelisted or not.
C13_AccessionIsSerial ==
    walk_kind = "saved" =>
        LET serial == IndexGet(accTable, Text(walk_orig[ACCESSION_NUMBER])) IN
            /\ serial # None
            /\ ACCESSION_NUMBER \in DOMAIN saved_ds
            /\ saved_ds[ACCESSION_NUMBER] = Elem(serial)
            /\ serial \in dirs
            /\ \A r \in written : r.serial = serial

\* A file with accession number A1 was written under a whitelist that holds
\* the accession tag: into the directory of S1, with S1 as accession number.
C13_Witness ==
    /\ walk_kind = "saved"
    /\ ACCESSION_NUMBER \in white_list
    /\ walk_orig[ACCESSION_NUMBER] = Elem(A1)
    /\ saved_ds[ACCESSION_NUMBER] = Elem(S1)
    /\ \E r \in written : r.serial = S1 /\ r.n = 1

\* ------------------------------------------- one file, seen by the inspector
TxtProtocol == <<"P","a","t","i","e","n","t"," ","P","R","O","T","O","C","O","L">>
TxtSave == <<" ","S","a","v","e","d">>
TxtPacsgear == <<"P","a","c","s","G","e","a","r">>
TxtDicomBox == <<"T","h","e"," ","D","I","C","O","M"," ","B","o","x">>

\* The values each attribute the inspector looks at is drawn from: single
\* texts that match and that do not, several values (a stored text with a
\* backslash in it), and None.
InspectValues ==
    (SERIES_DESCR :> { Elem(TxtProtocol), Elem(TxtSave), Elem(<<"v">>), NoneElem,
                       Multi(<<TxtSave, <<"v">>>>) })
    @@ (MODALITY :> { Elem(<<"M","R">>), Elem(<<"U","S">>),
                      Multi(<<<<"c","t">>, <<"U","S">>>>),
                      Multi(<<<<"m","r">>, <<"C","T">>>>) })
    @@ (BURNT_IN :> { Elem(<<" ","Y","e","s">>), Elem(<<"Y">>), Elem(<<"N","O">>),
                      NoneElem })
    @@ (IMAGE_TYPE :> { Elem(<<"v">>), Multi(<<<<"v">>, TxtSave>>) })
    @@ (MANUFACTURER :> { Elem(TxtPacsgear), Elem(<<"v">>),
                          Multi(<<TxtPacsgear, <<"v">>>>) })
    @@ (MANUFACTURER_MODEL_NAME :> { Elem(TxtDicomBox), Elem(<<"v">>) })

\* The task's file has been read: a dataset with accession number A1 and
\* pixel data, and any of the inspected attributes; any whitelist over
\* them; a store of StoreChoices (both hold a serial for A1).
InitInspect ==
    /\ PipelineInit({ StoreChoices[i] : i \in 1..Len(StoreChoices) }, "start")
    /\ indexed_lock = TRUE
    /\ last_exit = NoExit
    /\ links_file = LinksFile
    /\ walk_kind = "read"
    /\ white_list \in { {}, DOMAIN InspectValues }
    /\ \E D \in SUBSET (DOMAIN InspectValues) :
          \E d \in [D -> UNION { InspectValues[t] : t \in DOMAIN InspectValues }] :
              /\ \A t \in D : d[t] \in InspectValues[t]
              /\ walk_orig = d @@ DsPlain(A1, P1)
    /\ walk_ds = walk_orig
    /\ taglist = <<>>
    /\ saved_ds = <<>>

SpecInspect == InitInspect /\ [][NextFile]_vars

\* The rule order as it is stated: the decision of the first rule that
\* matches, texts compared after strip and lower-casing, over all values.
TextsOf(ds, t) ==
    IF t \in DOMAIN ds
      THEN { Lower(Strip(ds[t].vals[i])) : i \in 1..Len(ds[t].vals) }
      ELSE {}
HasText(ds, t, part) == \E x \in TextsOf(ds, t) : Contains(part, x)
FirstMatch(ds) ==
    IF HasText(ds, SERIES_DESCR, Lower(TxtProtocol))
      THEN Verdict(TRUE, "patient protocol")
    ELSE IF HasText(ds, SERIES_DESCR, <<"s","a","v","e">>)
      THEN Verdict(TRUE, "Likely screen capture")
    ELSE IF MODALITY \notin DOMAIN ds
      THEN Verdict(TRUE, "Modality missing")
    ELSE IF TextsOf(ds, MODALITY) \ Modalities # {}
      THEN Verdict(TRUE, "modality not allowed")
    ELSE IF TextsOf(ds, BURNT_IN) \cap { <<"y","e","s">>, <<"y">> } # {}
      THEN Verdict(TRUE, "burnt-in data")
    ELSE IF HasText(ds, IMAGE_TYPE, <<"s","a","v","e">>)
      THEN Verdict(TRUE, "Likely screen capture")
    ELSE IF HasText(ds, MANUFACTURER, Lower(TxtPacsgear))
      THEN Verdict(TRUE, "Manufacturer is suspect")
    ELSE IF HasText(ds, MANUFACTURER_MODEL_NAME, Lower(TxtDicomBox))
      THEN Verdict(TRUE, "Manufacturer model name is suspect")
    ELSE Verdict(FALSE, "")

\* C14: for every dataset, whitelist and store, the inspector's decision is
\* that of the first rule of the fixed order that matches: the file is
\* quarantined for that rule's reason, or accepted when no rule matches.
C14_FirstMatchWins ==
    walk_kind \notin {"read", "inspect"} =>
        IF FirstMatch(walk_orig).move
          THEN /\ walk_kind = "quarantined"
               /\ quarantine = {[file |-> 1, reason |-> FirstMatch(walk_orig).reason,
                                live |-> TRUE]}
          ELSE walk_kind # "crashed" /\ quarantine = {}

\* The same for the datasets whose series description, burnt-in annotation,
\* manufacturer and model name are not stored with several values.
C14_FirstMatchOfSingleTexts ==
    (\A t \in {SERIES_DESCR, BURNT_IN, MANUFACTURER, MANUFACTURER_MODEL_NAME} :
        t \in DOMAIN walk_orig => VM(walk_orig[t]) <= 1)
    => C14_FirstMatchWins

\* C15: two distinct input files that are both quarantined are two distinct
\* files of the quarantine tree, and no quarantine copy is overwritten by the
\* copy of another file.
C15_DistinctQuarantineFiles ==
    /\ \A r1, r2 \in quarantine :
          r1.file # r2.file => QuarantineName(r1.file) # QuarantineName(r2.file)
    /\ \A r \in quarantine : r.live

\* C16: within a run no input file is both copied to quarantine and written
\* to the output tree, and the quarantine tree holds, for each quarantined
\* file, a copy with the content of the input file.
C16_QuarantineExcludesOutput ==
    /\ \A f \in Files : ~(Quarantined(f) /\ WrittenNow(f) # {})
    /\ \A r \in quarantine :
          \E c \in quarantine :
              /\ c.live
              /\ QuarantineName(c.file) = QuarantineName(r.file)
              /\ FileOf(c.file) = FileOf(r.file)

\* Within a run no input file is both quarantined and written.
C16_NeverBoth == \A f \in Files : ~(Quarantined(f) /\ WrittenNow(f) # {})

\* The input file is left in place unmodified: the content a file has shown
\* is the content it keeps.
C16_InputUnmodified ==
    [][\A f \in Files : files[f] \in 1..Len(FileKinds) => files'[f] = files[f]]_vars

\* ------------------------------------------------------- link resolution
\* Largest number of lines of a links file.
MaxLinks == 3

A3 == <<"b","9">>

\* The lines a links file is made of: invitation numbers found in A1 and A3
\* ("9", "B"), in A2 ("4") and in no accession number ("7").
LinkRows == [invitation : { <<"9">>, <<"B">>, <<"4">>, <<"7">> }, serial : {S1, S2}]

\* The accession_numbers tables build_index_worker leaves: the accession
\* numbers of the files read, in the order read, without serials.
LinkTables ==
    { [i \in 1..Len(t) |-> [original |-> t[i], serial |-> None]] :
      t \in { <<>>, <<A1>>, <<A1, A2>>, <<A2, A1>>, <<A1, A3>>, <<A3, A1, A2>> } }

\* build_index has joined its thread and starts on the links file.
InitLinks ==
    /\ PipelineInit(LinkTables, "build_thread_join")
    /\ indexed_lock = FALSE
    /\ last_exit = NoExit
    /\ links_file \in UNION { [1..n -> LinkRows] : n \in 0..MaxLinks }
    /\ PolicyIdle

NextLinks ==
    \/ BuildLinkRow
    \/ BuildLinks
    \/ BuildLockIOError

SpecLinks == InitLinks /\ [][NextLinks]_vars

\* The line the loop is at repeats the invitation number of an earlier line.
Repeated == \E j \in 1..(line_num - 1) : links_file[j].invitation = links_file[line_num].invitation

\* C17: the lines of the links file are taken in file order; a line that
\* repeats the invitation number of an earlier line is skipped and changes no
\* serial in the store, whatever serial it carries; a line that is the first
\* with its invitation number and matches a row gives its serial to that row.
C17_FirstRowWins ==
    [][(mainpc = "build_thread_join" /\ line_num <= Len(links_file)) =>
          /\ line_num' = line_num + 1
          /\ Repeated => accTable' = accTable
          /\ ~Repeated =>
                \/ SearchRows(accTable, links_file[line_num].invitation) = {}
                      /\ accTable' = accTable
                \/ \E i \in SearchRows(accTable, links_file[line_num].invitation) :
                      accTable' = IndexUpdate(accTable, accTable[i].original,
                                              links_file[line_num].serial)]_vars

\* The loop has passed two lines with the same invitation number and
\* different serials, and the row they match holds the serial of the first.
C17_Witness ==
    /\ line_num > 2
    /\ links_file[1].invitation = links_file[2].invitation
    /\ links_file[1].serial = S1 /\ links_file[2].serial = S2
    /\ \E i \in SearchRows(accTable, links_file[1].invitation) :
          accTable[i].serial = S1
    /\ \A i \in 1..Len(accTable) : accTable[i].serial # S2

\* No line of the links file has an invitation number found in original.
Unresolved(original) ==
    \A j \in 1..Len(links_file) :
        ~Contains(Lower(links_file[j].invitation), Lower(original))

InitValidate ==
    /\ PipelineInit({ StoreChoices[1] }, "vstart")
    /\ indexed_lock = TRUE
    /\ last_exit = NoExit
    /\ links_file = LinksFile
    /\ PolicyIdle

\* ValidateDicomPseudon.run: the queue is filled, the processes are started
ValidateStart(n) ==
    /\ mainpc = "vstart"
    /\ num_workers' = n
    /\ queue' = [i \in 1..NumFiles |-> i]
    /\ worker' = [w \in Workers |-> IF w <= n THEN [IdleWorker EXCEPT !.pc = "vget"]
                                             ELSE IdleWorker]
    /\ mainpc' = "vpoison"
    /\ UNCHANGED <<diskVars, unfinished, counter_queue, fs_lock, db_lock, proc, skip_prior,
                   result, histVars, storeOpen, ioErrors, cliVars, policyVars>>

\* ValidateDicomPseudon.run: one None per process is put, right after the
\* processes were started
ValidatePoison ==
    /\ mainpc = "vpoison"
    /\ queue' = queue \o Poison(num_workers)
    /\ mainpc' = "vjoin"
    /\ UNCHANGED <<diskVars, unfinished, worker, counter_queue, fs_lock, db_lock, proc,
                   skip_prior, num_workers, result, histVars, storeOpen, ioErrors,
                   cliVars, policyVars>>

\* ValidateDicomPseudon.run_worker: task = queue.get(), a (root, filename)
ValidateGet(w) ==
    /\ worker[w].pc = "vget"
    /\ queue # <<>>
    /\ Head(queue) # 0
    /\ queue' = Tail(queue)
    /\ worker' = [worker EXCEPT ![w].pc = "vitem", ![w].task = Head(queue)]
    /\ UNCHANGED <<diskVars, unfinished, counter_queue, fs_lock, db_lock, mainVars,
                   histVars, storeOpen, ioErrors, cliVars, policyVars>>

\* ValidateDicomPseudon.run_worker: task is None: break
ValidateGetNone(w) ==
    /\ worker[w].pc = "vget"
    /\ queue # <<>>
    /\ Head(queue) = 0
    /\ queue' = Tail(queue)
    /\ worker' = [worker EXCEPT ![w] = Stop(@, "exited")]
    /\ UNCHANGED <<diskVars, unfinished, counter_queue, fs_lock, db_lock, mainVars,
                   histVars, storeOpen, ioErrors, cliVars, policyVars>>

\* ValidateDicomPseudon.run_worker, the body of the loop: the file is
\* skipped or validated ("next"), read_file raises IOError (close_all();
\* return False), or an exception that is not caught ends the process
ValidateItem(w, outcome) ==
    /\ worker[w].pc = "vitem"
    /\ IF outcome = "next"
         THEN /\ worker' = [worker EXCEPT ![w] = [Loop(@) EXCEPT !.pc = "vget"]]
              /\ UNCHANGED ioErrors
         ELSE IF outcome = "failed"
           THEN /\ ioErrors < MaxIOErrors
                /\ ioErrors' = ioErrors + 1
                /\ worker' = [worker EXCEPT ![w] = Stop(@, "failed")]
           ELSE /\ worker' = [worker EXCEPT ![w] = Stop(@, "crashed")]
                /\ UNCHANGED ioErrors
    /\ UNCHANGED <<diskVars, queue, unfinished, counter_queue, fs_lock, db_lock, mainVars,
                   histVars, storeOpen, cliVars, policyVars>>

\* ValidateDicomPseudon.run: every p.join() returns; close_all(); return True
ValidateReturn ==
    /\ mainpc = "vjoin"
    /\ \A w \in 1..num_workers : worker[w].pc \in Ended
    /\ mainpc' = "vreturned"
    /\ UNCHANGED <<diskVars, poolVars, proc, skip_prior, num_workers, result,
                   histVars, storeOpen, ioErrors, cliVars, policyVars>>

NextValidate ==
    \/ \E n \in 1..MaxWorkers : ValidateStart(n)
    \/ ValidatePoison
    \/ \E w \in Workers : ValidateGet(w)
    \/ \E w \in Workers : ValidateGetNone(w)
    \/ \E w \in Workers, outcome \in {"next", "failed", "crashed"} :
          ValidateItem(w, outcome)
    \/ ValidateReturn

\* Both programs that shut their workers down with None values: run() of the
\* pipeline and run() of the validator.
SpecShutdown == (Init \/ InitValidate) /\ [][Next \/ NextValidate]_vars

\* Work items not completed yet: in the queue, or taken by a worker that has
\* not finished with them.
ItemsOpen ==
    Cardinality({ i \in 1..Len(queue) : queue[i] # 0 })
    + Cardinality({ w \in Workers : worker[w].task # 0 })
Poisons == Cardinality({ i \in 1..Len(queue) : queue[i] = 0 })
PoisonTaken == Cardinality({ w \in Workers : worker[w].pc = "exited" })
PoisonPut == mainpc \in {"thread_join", "returned", "vjoin", "vreturned"}

\* What the shutdown protocol keeps in both programs: one None per worker is
\* put, once; a worker that has ended holds no item and each worker that
\* took a None took one; run() returns only when all workers have ended.
ShutdownCommon ==
    /\ PoisonPut => Poisons + PoisonTaken = num_workers
    /\ ~PoisonPut => Poisons + PoisonTaken = 0
    /\ \A w \in Workers : worker[w].pc \in Ended => worker[w].task = 0
    /\ mainpc \in {"returned", "vreturned"} =>
          \A w \in 1..num_workers : worker[w].pc \in Ended

\* C19 (as stated): one None per worker is put, and only after every work
\* item has been completed; workers end between items and take at most one
\* None; when run() returns all workers have ended.
C19_PoisonAfterAllItems ==
    /\ ShutdownCommon
    /\ Poisons + PoisonTaken > 0 => ItemsOpen = 0

\* C19 (amended): as stated for run() of the pipeline; run() of the
\* validator puts the None values right after the work items, behind them in
\* the queue, so that a worker takes a None only when no work item is left
\* in the queue, while items taken by other workers may still be in progress.
C19_PoisonBehindAllItems ==
    /\ ShutdownCommon
    /\ mainpc \in {"queue_join", "thread_join", "returned"} =>
          (Poisons + PoisonTaken > 0 => ItemsOpen = 0)
    /\ \A i, j \in 1..Len(queue) : (i < j /\ queue[i] = 0) => queue[j] = 0
    /\ PoisonTaken > 0 => \A i \in 1..Len(queue) : queue[i] = 0

\* In the validator a worker has ended on its None while another worker is
\* still at work on an item, and a None is left in the queue for it.
C19_Witness ==
    /\ mainpc = "vjoin"
    /\ Poisons = 1
    /\ \E w1, w2 \in Workers :
          worker[w1].pc = "exited" /\ worker[w2].pc = "vitem"

\* ------------------------------------------------------------------------
\* The store connection under db_lock
\* ------------------------------------------------------------------------

\* A worker is inside a store operation: it holds db_lock, between the
\* acquire and the release around index.get, get_hash or insert_hash.
StoreOpInProgress == db_lock # 0

\* A thread other than the holder of db_lock calls close_all() in this step:
\* the except IOError handlers of run_worker and walk_dicom.
ClosesStore == ioErrors' # ioErrors

\* C20: all operations on the shared store connection, closing it included,
\* exclude one another: the connection is never closed while a worker is
\* inside a lookup, a fingerprint check or a fingerprint registration.
C20_StoreOpsExclusive == [][ClosesStore => ~StoreOpInProgress]_vars

\* ------------------------------------------------------------------------
\* The counters of run()
\* ------------------------------------------------------------------------

\* The files this run wrote to the output tree, and the files it skipped
\* because their fingerprint was found in the store.
WrittenInRun == { f \in Files : WrittenNow(f) # {} }
SkippedInRun == { f \in Files : \E i \in DOMAIN audit[f].outcomes :
                                   audit[f].outcomes[i] = "prior" }

\* C21: when run() has returned, the pseudonymized count it summed from
\* counter_queue is the number of files written during the run and the prior
\* count is the number of files skipped as duplicates.
C21_CountsAggregated ==
    mainpc = "returned" =>
        /\ result.pseudonymized = Cardinality(WrittenInRun)
        /\ result.prior = Cardinality(SkippedInRun)

\* The counts are right when every worker thread left through the None task.
C21_CountsOfExitedWorkers ==
    (mainpc = "returned" /\ \A w \in 1..num_workers : worker[w].pc = "exited") =>
        /\ result.pseudonymized = Cardinality(WrittenInRun)
        /\ result.prior = Cardinality(SkippedInRun)

\* ------------------------------------------------------------------------
\* The fingerprint and the pixel data
\* ------------------------------------------------------------------------

\* The attributes of a dataset other than its pixel data.
NonPixel(ds) == [t \in DOMAIN ds \ {PIXEL_DATA} |-> ds[t]]

\* Files f and g were read as datasets that both carry pixel data and agree
\* on every other attribute.
SameButPixels(f, g) ==
    /\ files[f] > 0 /\ files[g] > 0
    /\ PIXEL_DATA \in DOMAIN DsOf(f) /\ PIXEL_DATA \in DOMAIN DsOf(g)
    /\ NonPixel(DsOf(f)) = NonPixel(DsOf(g))

\* C22: the fingerprint depends on the non-pixel content only: two files read
\* in a run that agree on all attributes but the pixel bytes have the same
\* hash, and with duplicate-skip enabled the fingerprint check of one of them
\* finds the hash registered for the other and counts the file as prior.
C22_FingerprintIgnoresPixels ==
    /\ [](\A f, g \in Files :
            SameButPixels(f, g) => get_fingerprint(DsOf(f)) = get_fingerprint(DsOf(g)))
    /\ [][\A w \in Workers :
            ( /\ worker[w].pc = "fpcheck"
              /\ worker'[w].pc # "fpcheck"
              /\ storeOpen
              /\ \E g \in Files :
                    /\ SameButPixels(worker[w].task, g)
                    /\ IndexGetHash(hashTable, get_fingerprint(DsOf(g))) )
            => /\ worker'[w].prior = worker[w].prior + 1
               /\ written' = written ]_vars

\* Two files that differ in their pixel bytes only: one was written, the
\* other was skipped as a duplicate of it.
C22_Witness ==
    \E f, g \in Files :
        /\ SameButPixels(f, g)
        /\ DsOf(f)[PIXEL_DATA] # DsOf(g)[PIXEL_DATA]
        /\ WrittenNow(f) # {}
        /\ g \in SkippedInRun

\* ------------------------------------------------------------------------
\* Files that are not DICOM files
\* ------------------------------------------------------------------------

\* File f has shown itself to be a file read_file cannot parse.
Unparseable(f) == files[f] > 0 /\ FileOf(f).kind = "invalid"

NoThreadAlive == \A w \in Workers : worker[w].pc \in {"off", "exited", "failed", "crashed"}

\* Thread w is a run_worker thread that has not ended.
PipelineThread(w) == worker[w].pc \notin {"off", "bget", "exited", "failed", "crashed"}

\* The main thread handles a row of the links file in this step.
LinkRowStep ==
    /\ proc' = proc
    /\ line_num' # line_num \/ invitation_num_set' # invitation_num_set

\* Every row of the links file was handled by this process, or build_index
\* was skipped on an indexed.lock that an earlier build_index left after its
\* last row.
LinksResolved ==
    \/ line_num > Len(links_file)
    \/ line_num = 1 /\ invitation_num_set = {} /\ indexed_lock

\* C24: the rows of the links file are handled by the main thread alone and
\* before run() starts its threads: no build_index_worker or run_worker
\* thread is alive in a step that handles a row, and no run_worker thread
\* exists before the last row was handled.
C24_LinksBeforeWorkers ==
    /\ [][LinkRowStep => NoThreadAlive /\ worker' = worker]_vars
    /\ [](\A w \in Workers : PipelineThread(w) => LinksResolved)

\* A run_worker thread looks up a serial in the process that resolved the
\* links file, after its last row.
C24_Witness ==
    /\ \E w \in Workers : worker[w].pc = "lookup"
    /\ line_num > Len(links_file)
    /\ invitation_num_set # {}
    /\ \E i \in 1..Len(accTable) : accTable[i].serial # None

\* ------------------------------------------------------------------------
\* The fingerprint is registered last
\* ------------------------------------------------------------------------

\* The fingerprints of the datasets that were written to the output tree.
WrittenFingerprints == { get_fingerprint(DsOf(r.file)) : r \in written }

\* C25: a fingerprint is registered as the last step for a file, after its
\* output file was written: every fingerprint in the store is that of a
\* written dataset, and a step that adds a fingerprint is the last step of a
\* thread on a file it wrote in this run, so that a file that was
\* quarantined, skipped or not written registers nothing.
C25_RegisteredAfterWrite ==
    /\ [](hashTable \subseteq WrittenFingerprints)
    /\ [][hashTable' # hashTable =>
            \E w \in Workers :
                /\ worker[w].pc = "register"
                /\ WrittenNow(worker[w].task) # {}
                /\ audit[worker[w].task].outcomes = <<"written">>
                /\ hashTable' = hashTable \cup {get_fingerprint(DsOf(worker[w].task))}
                /\ worker'[w].pc = "get"
                /\ unfinished' = unfinished - 1]_vars

\* In one run a file was written and registered, a second was quarantined
\* and the store holds one fingerprint.
C25_Witness ==
    /\ mainpc = "returned"
    /\ Cardinality(hashTable) = 1
    /\ \E f, g \in Files :
          /\ WrittenNow(f) # {} /\ get_fingerprint(DsOf(f)) \in hashTable
          /\ audit[g].outcomes = <<"quarantined">>

\* ------------------------------------------------------------------------
\* One file whose input carries the audit attributes
\* ------------------------------------------------------------------------

PATIENT_IDENTITY_REMOVED == <<18, 98>>
DEIDENTIFICATION_METHOD_TAG == <<18, 99>>
AuditAttributes == { PATIENT_IDENTITY_REMOVED, DEIDENTIFICATION_METHOD_TAG }

\* Tags the input is drawn from besides accession number, modality and pixel
\* data: the two audit attributes, a tag that is neither required nor in the
\* pixel module (InstitutionName), a required tag (PatientName), and more of
\* the same (OtherPatientIDs, PatientID).
AuditTagSeq ==
    << PATIENT_IDENTITY_REMOVED, DEIDENTIFICATION_METHOD_TAG, <<8, 128>>, <<16, 16>>,
       <<16, 4096>>, <<16, 32>> >>
AuditTags == { AuditTagSeq[i] : i \in 1..MaxTags }
AuditValues(t) ==
    IF t = PATIENT_IDENTITY_REMOVED THEN { NoneElem, Elem(<<"N","O">>) }
    ELSE { Elem(<<"v">>) }

\* The task's file has been read: a dataset that passes check_quarantine and
\* has a serial, with any of the tags above, under any whitelist of them.
InitAudit ==
    /\ PipelineInit({ StoreChoices[1] }, "start")
    /\ indexed_lock = TRUE
    /\ last_exit = NoExit
    /\ links_file = LinksFile
    /\ walk_kind = "read"
    /\ white_list \in SUBSET AuditTags
    /\ \E D \in SUBSET AuditTags :
          \E d \in [D -> UNION { AuditValues(t) : t \in AuditTags }] :
              /\ \A t \in D : d[t] \in AuditValues(t)
              /\ walk_orig = d @@ DsPlain(A1, P1)
    /\ walk_ds = walk_orig
    /\ taglist = <<>>
    /\ saved_ds = <<>>

SpecAudit == InitAudit /\ [][NextFile]_vars

\* C26: every written output file carries Patient Identity Removed
\* (0012,0062) with the value YES and De-identification Method (0012,0063)
\* with the fixed method string, under every whitelist and whatever the input
\* had under these tags.
C26_AuditAttributesSet ==
    (walk_kind = "saved" \/ written # {}) =>
        /\ PATIENT_IDENTITY_REMOVED \in DOMAIN saved_ds
        /\ saved_ds[PATIENT_IDENTITY_REMOVED] = Elem(<<"Y","E","S">>)
        /\ DEIDENTIFICATION_METHOD_TAG \in DOMAIN saved_ds
        /\ saved_ds[DEIDENTIFICATION_METHOD_TAG] = Elem(DE_IDENTIFICATION_METHOD)

\* A file was written whose input said NO under a whitelisted Patient
\* Identity Removed and had another text as method, not whitelisted.
C26_Witness ==
    /\ walk_kind = "saved"
    /\ written # {}
    /\ PATIENT_IDENTITY_REMOVED \in DOMAIN walk_orig
    /\ walk_orig[PATIENT_IDENTITY_REMOVED] = Elem(<<"N","O">>)
    /\ PATIENT_IDENTITY_REMOVED \in white_list
    /\ DEIDENTIFICATION_METHOD_TAG \in DOMAIN walk_orig
    /\ DEIDENTIFICATION_METHOD_TAG \notin white_list

\* The tags of the input that the policy walk has taken out of the dataset.
DeletedByPolicy == (DOMAIN walk_orig) \ (DOMAIN walk_ds)

\* The delete branch of clean is the one taken for tag t.
PolicyDeletes(t) ==
    ~white_list_handler(white_list, t) /\ ~InRequired(t) /\ ~InPixelModule(t)

\* C27 (as stated): every tag the policy walk deleted is absent from the
\* dataset that is written to output.
C27_DeletedStaysAbsent ==
    walk_kind = "saved" => \A t \in DeletedByPolicy : t \notin DOMAIN saved_ds

\* C27 (amended): a tag the policy walk deleted does not come back during the
\* walk, and every tag of the input for which the policy deletes, the two
\* audit attributes that walk_dicom sets afterwards excepted, is absent from
\* the dataset that is written to output.
C27_DeletedAbsentButAudit ==
    /\ [][walk_kind = "main" =>
            \A t \in DeletedByPolicy : t \notin DOMAIN walk_ds']_vars
    /\ [](walk_kind = "saved" =>
            /\ \A t \in DeletedByPolicy \ AuditAttributes : t \notin DOMAIN saved_ds
            /\ \A t \in (DOMAIN walk_orig) \ AuditAttributes :
                  PolicyDeletes(t) => t \notin DOMAIN saved_ds)

\* A file was written whose input had InstitutionName and Patient Identity
\* Removed, neither whitelisted: the policy deleted both, the first is absent
\* from the output and the second is there with the value YES.
C27_Witness ==
    /\ walk_kind = "saved"
    /\ <<8, 128>> \in DeletedByPolicy
    /\ <<8, 128>> \notin DOMAIN saved_ds
    /\ PATIENT_IDENTITY_REMOVED \in DeletedByPolicy
    /\ PATIENT_IDENTITY_REMOVED \in DOMAIN saved_ds

\* ------------------------------------------------------------------------
\* Index.insert
\* ------------------------------------------------------------------------

\* build_index_worker takes file f in this step and calls
\* index.insert(ds.AccessionNumber).
InsertStep(f) ==
    /\ worker[1].pc = "bget"
    /\ queue # <<>> /\ Head(queue) = f /\ queue' = Tail(queue)
    /\ proc' = proc /\ ioErrors' = ioErrors
    /\ files'[f] > 0
    /\ FileKinds[files'[f]].kind = "dicom"
    /\ ACCESSION_NUMBER \in DOMAIN FileKinds[files'[f]].ds

\* The accession number index.insert is called with for file f.
InsertedAccession(f) == Text(FileKinds[files'[f]].ds[ACCESSION_NUMBER])

\* C28: index.insert is idempotent and keeps accession numbers unique: the
\* store never holds two rows for one accession number, an insert of an
\* accession number that has a row leaves the table as it is, serial
\* included, and an insert of a new one appends a row without serial.
C28_InsertIdempotentUnique ==
    /\ [](\A i, j \in 1..Len(accTable) :
            accTable[i].original = accTable[j].original => i = j)
    /\ [][\A f \in Files : InsertStep(f) =>
            IF RowsOf(accTable, InsertedAccession(f)) # {}
              THEN accTable' = accTable
              ELSE accTable' = Append(accTable, [original |-> InsertedAccession(f),
                                                 serial |-> None])]_vars

\* The program was started again over a store that was kept, build_index was
\* not skipped, and its thread has inserted the accession number of file 1,
\* which had a serial, a second time.
C28_Witness ==
    /\ proc > 1
    /\ mainpc = "build_join"
    /\ worker[1].pc = "bget"
    /\ queue = <<2>>
    /\ files[1] > 0
    /\ FileOf(1).kind = "dicom"
    /\ ACCESSION_NUMBER \in DOMAIN DsOf(1)
    /\ IndexGet(accTable, Text(DsOf(1)[ACCESSION_NUMBER])) # None
    /\ last_exit.how = "killed"

\* ------------------------------------------------------------------------
\* Datasets without pixel data or accession number
\* ------------------------------------------------------------------------

\* Thread w moves in this step, on a file that was read as a dataset without
\* PixelData or without AccessionNumber, while the store is open.
IncompleteStep(w) ==
    /\ worker[w].task # 0
    /\ worker'[w] # worker[w]
    /\ proc' = proc
    /\ storeOpen
    /\ files'[worker[w].task] > 0
    /\ LET k == FileKinds[files'[worker[w].task]] IN
         /\ k.kind = "dicom"
         /\ PIXEL_DATA \notin DOMAIN k.ds \/ ACCESSION_NUMBER \notin DOMAIN k.ds

\* C29: a file that reads as a dataset without pixel data or without
\* accession number does not end the thread that handles it: the thread
\* never dies on it, and when it is done with the file the file has one
\* outcome and the thread is back at queue.get().
C29_IncompleteDatasetRecovered ==
    [][\A w \in Workers : IncompleteStep(w) =>
          /\ worker'[w].pc # "crashed"
          /\ worker'[w].task = 0 =>
                /\ worker'[w].pc = "get"
                /\ Len(audit'[worker[w].task].outcomes) = 1]_vars

\* ------------------------------------------------------------------------
\* Serials under later lines of the links file
\* ------------------------------------------------------------------------

\* C30: while the links file is resolved, a row of the store that has been
\* given a serial keeps it: no later line, whatever its invitation number,
\* changes the serial of an accession number that has one.
C30_AssignedSerialKept ==
    [][proc' = proc =>
          \A i \in 1..Len(accTable) :
              accTable[i].serial # None =>
                  /\ i <= Len(accTable')
                  /\ accTable'[i] = accTable[i]]_vars

\* ------------------------------------------------------------------------
\* fs_lock and db_lock
\* ------------------------------------------------------------------------

\* The threads are scheduled fairly: a thread that can move does move.
SpecFair == Init /\ [][Next]_vars /\ \A w \in Workers : WF_vars(RunWorker(w))

\* Thread w is inside the section of walk_dicom under fs_lock, or inside a
\* store operation under db_lock.
InFsSection(w) == worker[w].pc = "save"
InDbSection(w) == worker[w].pc \in {"fpcheck", "lookup", "register"}

\* Thread w waits in fs_lock.acquire() or in db_lock.acquire().
WaitsForLock(w) ==
    \/ worker[w].pc = "alloc"
    \/ /\ InDbSection(w) /\ db_lock # w
       /\ worker[w].pc = "lookup" => ACCESSION_NUMBER \in DOMAIN DsOf(worker[w].task)

\* C31: no thread holds db_lock and fs_lock together; a lock that is held is
\* held by a thread that is inside the section the lock protects, never by one
\* that has left it, on the paths through a write IOError and a failed store
\* operation too; and a thread that waits for a lock does not wait for ever.
C31_LockDiscipline ==
    /\ [](\A w \in Workers : ~(fs_lock = w /\ db_lock = w))
    /\ [](fs_lock # 0 => InFsSection(fs_lock))
    /\ [](db_lock # 0 => InDbSection(db_lock))
    /\ [](\A w \in Workers : InFsSection(w) => fs_lock = w)
    /\ \A w \in Workers : WaitsForLock(w) ~> ~WaitsForLock(w)

\* After a write IOError, whose handler closes the store under fs_lock, the
\* other thread has taken fs_lock and is about to write.
C31_Witness ==
    /\ ioFatal
    /\ \E f \in Files : audit[f].outcomes = <<"write failed">>
    /\ \E w \in Workers : fs_lock = w /\ InFsSection(w)
    /\ db_lock = 0

\* ------------------------------------------------------------------------
\* The validator on the files the pipeline writes
\* ------------------------------------------------------------------------

\* REQUIRED_TAGS, PIXEL_MODULE_TAGS and ADDED_TAGS of validate_dicom_pseudon.py
ValidateRequiredTags ==
    { <<8, 80>>, <<8, 32>>, <<8, 48>>, <<8, 144>>, <<16, 16>>, <<16, 32>>,
      <<16, 48>>, <<16, 64>>, <<32, 16>>, <<32, 17>>, <<32, 19>>, <<32, 32>>,
      <<32, 13>>, <<32, 14>> }

ValidatePixelModuleTags ==
    { <<40, 2>>, <<40, 4>>, <<40, 6>>, <<40, 16>>, <<40, 17>>, <<40, 52>>,
      <<40, 256>>, <<40, 257>>, <<40, 258>>, <<40, 259>>, <<40, 262>>,
      <<40, 263>>, <<40, 289>>, <<40, 4353>>, <<40, 4354>>, <<40, 4355>>,
      <<40, 4609>>, <<40, 4610>>, <<40, 4611>>, <<40, 8192>>, <<40, 8194>>,
      <<40, 32736>>, <<32736, 16>> }

\* a validator that does not know the attributes walk_dicom adds
ADDED_TAGS_missing == {}

ADDED_TAGS == { <<18, 98>>, <<18, 99>> }

\* ValidateDicomPseudon.validate_tags(ds, e) for the element of tag t: False,
\* with the error 'Tag ... not removed from file', when the tag is neither
\* whitelisted nor required, in the pixel module or added
validate_tags(wl, t) ==
    IF ~white_list_handler(wl, t)
      THEN t \in ValidateRequiredTags \/ t \in ValidatePixelModuleTags
           \/ t \in ADDED_TAGS
      ELSE TRUE

\* ValidateDicomPseudon.validate on the file the pipeline wrote, run with the
\* same whitelist: ds.walk(validate_tags) over the main mapping
FileValidate ==
    /\ walk_kind = "saved"
    /\ walk_kind' = IF \A t \in DOMAIN saved_ds : validate_tags(white_list, t)
                      THEN "validated" ELSE "not removed"
    /\ UNCHANGED <<diskVars, poolVars, mainVars, histVars, storeOpen, ioErrors,
                   cliVars, white_list, walk_ds, taglist, walk_orig, saved_ds>>

NextFileValidate ==
    \/ NextFile
    \/ FileValidate

SpecValidate == InitAudit /\ [][NextFileValidate]_vars

\* C32: the validator, run with the whitelist the pipeline ran with, accepts
\* every attribute of the main mapping of every file the pipeline writes: it
\* never reports a tag as not removed.
C32_ValidatorAcceptsOutput ==
    /\ walk_kind # "not removed"
    /\ walk_kind \in {"saved", "validated"} =>
          \A t \in DOMAIN saved_ds : validate_tags(white_list, t)

\* The validator has accepted a written file that holds the two audit
\* attributes, not whitelisted, the accession number and the pixel data, and
\* whose input had a whitelisted InstitutionName.
C32_Witness ==
    /\ walk_kind = "validated"
    /\ written # {}
    /\ AuditAttributes \subseteq DOMAIN saved_ds
    /\ AuditAttributes \cap white_list = {}
    /\ ACCESSION_NUMBER \in DOMAIN saved_ds
    /\ PIXEL_DATA \in DOMAIN saved_ds
    /\ <<8, 128>> \in white_list \cap DOMAIN saved_ds

====
